---------------------------- MODULE Spec2Model ----------------------------
(***************************************************************************)
(* A model of the folder-naming tools of the music collection manager:     *)
(*   - sanitize_folder_name    (utils/folder_sanitizer.py)                 *)
(*   - FolderMigrator and main (tools/regenerate_all_with_migration.py)    *)
(*   - SanitizationChecker     (tools/check_sanitization_changes.py)       *)
(*   - ArtistFolderReconciler  (tools/artist_folder_reconciler.py)         *)
(*                                                                         *)
(* A string is a sequence of characters.  An ASCII character is written as *)
(* itself ("a", " ", "-"); any other character is written as a name        *)
(* ("o_diaeresis" for U+00F6, "cyr_ya" for U+044F, "tab" for U+0009), so a *)
(* multi-letter element of a sequence is always ONE character.             *)
(***************************************************************************)
EXTENDS Integers, Sequences, FiniteSets, TLC

(***************************************************************************)
(* Characters and their Python classes.                                    *)
(***************************************************************************)
AsciiLower == {"a", "b", "c", "d", "e", "f", "g", "h", "i", "j", "k", "l", "m", "n", "o", "p", "q", "r", "s", "t", "u", "v", "w", "x", "y", "z"}

AsciiUpper == {"A", "B", "C", "D", "E", "F", "G", "H", "I", "J", "K", "L", "M", "N", "O", "P", "Q", "R", "S", "T", "U", "V", "W", "X", "Y", "Z"}

Digits == {"0", "1", "2", "3", "4", "5", "6", "7", "8", "9"}

\* The other printable ASCII characters, and the tab (the double quote, the backslash and the
\* backtick are written as names).
AsciiOther ==
  {" ", "tab", "!", "double_quote", "#", "$", "%", "&", "'", "(", ")", "*", "+", ",", "-", ".", "/", ":",
   ";", "<", "=", ">", "?", "@", "[", "backslash", "]", "^", "_", "backtick", "{", "|", "}", "~"}

\* str.lower() on the ASCII capitals.
AsciiToLower ==
  "A" :> "a" @@ "B" :> "b" @@ "C" :> "c" @@ "D" :> "d" @@ "E" :> "e" @@ "F" :> "f" @@ "G" :> "g" @@
  "H" :> "h" @@ "I" :> "i" @@ "J" :> "j" @@ "K" :> "k" @@ "L" :> "l" @@ "M" :> "m" @@ "N" :> "n" @@
  "O" :> "o" @@ "P" :> "p" @@ "Q" :> "q" @@ "R" :> "r" @@ "S" :> "s" @@ "T" :> "t" @@ "U" :> "u" @@
  "V" :> "v" @@ "W" :> "w" @@ "X" :> "x" @@ "Y" :> "y" @@ "Z" :> "z"

\* accent_map, in the dictionary's order: <<character, replacement>>.
accent_map ==
  <<
    <<<<"a_acute">>, <<"a">>>>, <<<<"a_grave">>, <<"a">>>>, <<<<"a_diaeresis">>, <<"a">>>>,
    <<<<"a_circumflex">>, <<"a">>>>, <<<<"a_tilde">>, <<"a">>>>,
    <<<<"a_ring_above">>, <<"a">>>>, <<<<"e_acute">>, <<"e">>>>, <<<<"e_grave">>, <<"e">>>>,
    <<<<"e_diaeresis">>, <<"e">>>>, <<<<"e_circumflex">>, <<"e">>>>,
    <<<<"i_acute">>, <<"i">>>>, <<<<"i_grave">>, <<"i">>>>, <<<<"i_diaeresis">>, <<"i">>>>,
    <<<<"i_circumflex">>, <<"i">>>>, <<<<"o_acute">>, <<"o">>>>, <<<<"o_grave">>, <<"o">>>>,
    <<<<"o_diaeresis">>, <<"o">>>>, <<<<"o_circumflex">>, <<"o">>>>,
    <<<<"o_tilde">>, <<"o">>>>, <<<<"o_stroke">>, <<"o">>>>, <<<<"u_acute">>, <<"u">>>>,
    <<<<"u_grave">>, <<"u">>>>, <<<<"u_diaeresis">>, <<"u">>>>,
    <<<<"u_circumflex">>, <<"u">>>>, <<<<"y_acute">>, <<"y">>>>,
    <<<<"y_diaeresis">>, <<"y">>>>, <<<<"n_tilde">>, <<"n">>>>, <<<<"c_cedilla">>, <<"c">>>>,
    <<<<"sharp_s">>, <<"s", "s">>>>, <<<<"ae">>, <<"a", "e">>>>,
    <<<<"oe">>, <<"o", "e">>>>, <<<<"eth">>, <<"d">>>>, <<<<"thorn">>, <<"t", "h">>>>
  >>

\* symbol_map, in the dictionary's order.
symbol_map ==
  <<
    <<<<"vulgar_fraction_one_half">>, <<"h", "a", "l", "f">>>>,
    <<<<"vulgar_fraction_one_third">>, <<"t", "h", "i", "r", "d">>>>,
    <<<<"vulgar_fraction_one_quarter">>, <<"q", "u", "a", "r", "t", "e", "r">>>>,
    <<<<"vulgar_fraction_three_quarters">>, <<"t", "h", "r", "e", "e", "-", "q", "u", "a", "r", "t", "e", "r", "s">>>>,
    <<<<"vulgar_fraction_one_eighth">>, <<"e", "i", "g", "h", "t", "h">>>>,
    <<<<"vulgar_fraction_three_eighths">>, <<"t", "h", "r", "e", "e", "-", "e", "i", "g", "h", "t", "h", "s">>>>,
    <<<<"vulgar_fraction_five_eighths">>, <<"f", "i", "v", "e", "-", "e", "i", "g", "h", "t", "h", "s">>>>,
    <<<<"vulgar_fraction_seven_eighths">>, <<"s", "e", "v", "e", "n", "-", "e", "i", "g", "h", "t", "h", "s">>>>,
    <<<<"superscript_two">>, <<"2">>>>, <<<<"superscript_three">>, <<"3">>>>,
    <<<<"superscript_one">>, <<"1">>>>, <<<<"en_dash">>, <<"-">>>>, <<<<"em_dash">>, <<"-">>>>,
    <<<<"minus_sign">>, <<"-">>>>
  >>

\* remove_chars, in the list's order. The fifth element is the two-character string
\* comma-space: the source writes it as two adjacent triple-quote marks, which Python
\* reads as one string literal.
remove_chars ==
  <<
    <<"degree_sign">>, <<"copyright_sign">>, <<"registered_sign">>, <<"trade_mark_sign">>,
    <<",", " ">>, <<"double_quote">>, <<"double_quote">>, <<"left_pointing_double_angle_quotation_mark">>,
    <<"right_pointing_double_angle_quotation_mark">>,
    <<"single_left_pointing_angle_quotation_mark">>,
    <<"single_right_pointing_angle_quotation_mark">>, <<"double_low_9_quotation_mark">>,
    <<"single_low_9_quotation_mark">>, <<"(">>, <<")">>, <<"+">>, <<"=">>, <<"%">>, <<"@">>,
    <<"#">>, <<"$">>, <<"euro_sign">>, <<"pound_sign">>, <<"horizontal_ellipsis">>
  >>

\* greek_map, in the dictionary's order.
greek_map ==
  <<
    <<<<"ALPHA">>, <<"a">>>>, <<<<"alpha">>, <<"a">>>>, <<<<"alpha_tonos">>, <<"a">>>>,
    <<<<"ALPHA_TONOS">>, <<"a">>>>, <<<<"BETA">>, <<"b">>>>, <<<<"beta">>, <<"b">>>>,
    <<<<"GAMMA">>, <<"g">>>>, <<<<"gamma">>, <<"g">>>>, <<<<"DELTA">>, <<"d">>>>,
    <<<<"delta">>, <<"d">>>>, <<<<"EPSILON">>, <<"e">>>>, <<<<"epsilon">>, <<"e">>>>,
    <<<<"epsilon_tonos">>, <<"e">>>>, <<<<"EPSILON_TONOS">>, <<"e">>>>,
    <<<<"ZETA">>, <<"z">>>>, <<<<"zeta">>, <<"z">>>>, <<<<"ETA">>, <<"e">>>>,
    <<<<"eta">>, <<"e">>>>, <<<<"eta_tonos">>, <<"e">>>>, <<<<"ETA_TONOS">>, <<"e">>>>,
    <<<<"THETA">>, <<"t", "h">>>>, <<<<"theta">>, <<"t", "h">>>>, <<<<"IOTA">>, <<"i">>>>,
    <<<<"iota">>, <<"i">>>>, <<<<"iota_tonos">>, <<"i">>>>, <<<<"iota_dialytika">>, <<"i">>>>,
    <<<<"iota_dialytika_tonos">>, <<"i">>>>, <<<<"IOTA_TONOS">>, <<"i">>>>,
    <<<<"IOTA_DIALYTIKA">>, <<"i">>>>, <<<<"KAPPA">>, <<"k">>>>, <<<<"kappa">>, <<"k">>>>,
    <<<<"LAMDA">>, <<"l">>>>, <<<<"lamda">>, <<"l">>>>, <<<<"MU">>, <<"m">>>>,
    <<<<"mu">>, <<"m">>>>, <<<<"NU">>, <<"n">>>>, <<<<"nu">>, <<"n">>>>, <<<<"XI">>, <<"x">>>>,
    <<<<"xi">>, <<"x">>>>, <<<<"OMICRON">>, <<"o">>>>, <<<<"omicron">>, <<"o">>>>,
    <<<<"omicron_tonos">>, <<"o">>>>, <<<<"OMICRON_TONOS">>, <<"o">>>>, <<<<"PI">>, <<"p">>>>,
    <<<<"pi">>, <<"p">>>>, <<<<"RHO">>, <<"r">>>>, <<<<"rho">>, <<"r">>>>,
    <<<<"SIGMA">>, <<"s">>>>, <<<<"sigma">>, <<"s">>>>, <<<<"final_sigma">>, <<"s">>>>,
    <<<<"TAU">>, <<"t">>>>, <<<<"tau">>, <<"t">>>>, <<<<"UPSILON">>, <<"u">>>>,
    <<<<"upsilon">>, <<"u">>>>, <<<<"upsilon_tonos">>, <<"u">>>>,
    <<<<"upsilon_dialytika">>, <<"u">>>>, <<<<"upsilon_dialytika_tonos">>, <<"u">>>>,
    <<<<"UPSILON_TONOS">>, <<"u">>>>, <<<<"UPSILON_DIALYTIKA">>, <<"u">>>>,
    <<<<"PHI">>, <<"f">>>>, <<<<"phi">>, <<"f">>>>, <<<<"CHI">>, <<"c", "h">>>>,
    <<<<"chi">>, <<"c", "h">>>>, <<<<"PSI">>, <<"p", "s">>>>, <<<<"psi">>, <<"p", "s">>>>,
    <<<<"OMEGA">>, <<"o">>>>, <<<<"omega">>, <<"o">>>>, <<<<"omega_tonos">>, <<"o">>>>,
    <<<<"OMEGA_TONOS">>, <<"o">>>>
  >>

\* str.lower() on the non-ASCII characters of the model that have a lowercase form.
NonAsciiLower ==
  "ALPHA" :> "alpha" @@ "ALPHA_TONOS" :> "alpha_tonos" @@ "BETA" :> "beta" @@ "GAMMA" :> "gamma" @@
  "DELTA" :> "delta" @@ "EPSILON" :> "epsilon" @@ "EPSILON_TONOS" :> "epsilon_tonos" @@
  "ZETA" :> "zeta" @@ "ETA" :> "eta" @@ "ETA_TONOS" :> "eta_tonos" @@ "THETA" :> "theta" @@
  "IOTA" :> "iota" @@ "IOTA_TONOS" :> "iota_tonos" @@ "IOTA_DIALYTIKA" :> "iota_dialytika" @@
  "KAPPA" :> "kappa" @@ "LAMDA" :> "lamda" @@ "MU" :> "mu" @@ "NU" :> "nu" @@ "XI" :> "xi" @@
  "OMICRON" :> "omicron" @@ "OMICRON_TONOS" :> "omicron_tonos" @@ "PI" :> "pi" @@ "RHO" :> "rho" @@
  "TAU" :> "tau" @@ "UPSILON" :> "upsilon" @@ "UPSILON_TONOS" :> "upsilon_tonos" @@
  "UPSILON_DIALYTIKA" :> "upsilon_dialytika" @@ "PHI" :> "phi" @@ "CHI" :> "chi" @@ "PSI" :> "psi" @@
  "OMEGA" :> "omega" @@ "OMEGA_TONOS" :> "omega_tonos" @@ "A_ACUTE" :> "a_acute" @@
  "A_GRAVE" :> "a_grave" @@ "A_DIAERESIS" :> "a_diaeresis" @@ "A_CIRCUMFLEX" :> "a_circumflex" @@
  "A_TILDE" :> "a_tilde" @@ "A_RING_ABOVE" :> "a_ring_above" @@ "E_ACUTE" :> "e_acute" @@
  "E_GRAVE" :> "e_grave" @@ "E_DIAERESIS" :> "e_diaeresis" @@ "E_CIRCUMFLEX" :> "e_circumflex" @@
  "I_ACUTE" :> "i_acute" @@ "I_GRAVE" :> "i_grave" @@ "I_DIAERESIS" :> "i_diaeresis" @@
  "I_CIRCUMFLEX" :> "i_circumflex" @@ "O_ACUTE" :> "o_acute" @@ "O_GRAVE" :> "o_grave" @@
  "O_DIAERESIS" :> "o_diaeresis" @@ "O_CIRCUMFLEX" :> "o_circumflex" @@ "O_TILDE" :> "o_tilde" @@
  "O_STROKE" :> "o_stroke" @@ "U_ACUTE" :> "u_acute" @@ "U_GRAVE" :> "u_grave" @@
  "U_DIAERESIS" :> "u_diaeresis" @@ "U_CIRCUMFLEX" :> "u_circumflex" @@ "Y_ACUTE" :> "y_acute" @@
  "Y_DIAERESIS" :> "y_diaeresis" @@ "N_TILDE" :> "n_tilde" @@ "C_CEDILLA" :> "c_cedilla" @@
  "AE" :> "ae" @@ "OE" :> "oe" @@ "ETH" :> "eth" @@ "THORN" :> "thorn" @@ "CYR_YA" :> "cyr_ya"

\* ord(c): the code point of every character of the model. SQLite's ORDER BY compares the
\* UTF-8 bytes of the names, which is the order of the code points.
CodePoint ==
  "tab" :> 9 @@ " " :> 32 @@ "!" :> 33 @@ "double_quote" :> 34 @@ "#" :> 35 @@ "$" :> 36 @@
  "%" :> 37 @@ "&" :> 38 @@ "'" :> 39 @@ "(" :> 40 @@ ")" :> 41 @@ "*" :> 42 @@ "+" :> 43 @@
  "," :> 44 @@ "-" :> 45 @@ "." :> 46 @@ "/" :> 47 @@ "0" :> 48 @@ "1" :> 49 @@ "2" :> 50 @@
  "3" :> 51 @@ "4" :> 52 @@ "5" :> 53 @@ "6" :> 54 @@ "7" :> 55 @@ "8" :> 56 @@ "9" :> 57 @@
  ":" :> 58 @@ ";" :> 59 @@ "<" :> 60 @@ "=" :> 61 @@ ">" :> 62 @@ "?" :> 63 @@ "@" :> 64 @@
  "A" :> 65 @@ "B" :> 66 @@ "C" :> 67 @@ "D" :> 68 @@ "E" :> 69 @@ "F" :> 70 @@ "G" :> 71 @@
  "H" :> 72 @@ "I" :> 73 @@ "J" :> 74 @@ "K" :> 75 @@ "L" :> 76 @@ "M" :> 77 @@ "N" :> 78 @@
  "O" :> 79 @@ "P" :> 80 @@ "Q" :> 81 @@ "R" :> 82 @@ "S" :> 83 @@ "T" :> 84 @@ "U" :> 85 @@
  "V" :> 86 @@ "W" :> 87 @@ "X" :> 88 @@ "Y" :> 89 @@ "Z" :> 90 @@ "[" :> 91 @@
  "backslash" :> 92 @@ "]" :> 93 @@ "^" :> 94 @@ "_" :> 95 @@ "backtick" :> 96 @@ "a" :> 97 @@
  "b" :> 98 @@ "c" :> 99 @@ "d" :> 100 @@ "e" :> 101 @@ "f" :> 102 @@ "g" :> 103 @@
  "h" :> 104 @@ "i" :> 105 @@ "j" :> 106 @@ "k" :> 107 @@ "l" :> 108 @@ "m" :> 109 @@
  "n" :> 110 @@ "o" :> 111 @@ "p" :> 112 @@ "q" :> 113 @@ "r" :> 114 @@ "s" :> 115 @@
  "t" :> 116 @@ "u" :> 117 @@ "v" :> 118 @@ "w" :> 119 @@ "x" :> 120 @@ "y" :> 121 @@
  "z" :> 122 @@ "{" :> 123 @@ "|" :> 124 @@ "}" :> 125 @@ "~" :> 126 @@
  "no_break_space" :> 160 @@ "pound_sign" :> 163 @@ "copyright_sign" :> 169 @@
  "left_pointing_double_angle_quotation_mark" :> 171 @@ "registered_sign" :> 174 @@
  "degree_sign" :> 176 @@ "superscript_two" :> 178 @@ "superscript_three" :> 179 @@
  "superscript_one" :> 185 @@ "right_pointing_double_angle_quotation_mark" :> 187 @@
  "vulgar_fraction_one_quarter" :> 188 @@ "vulgar_fraction_one_half" :> 189 @@
  "vulgar_fraction_three_quarters" :> 190 @@ "A_GRAVE" :> 192 @@ "A_ACUTE" :> 193 @@
  "A_CIRCUMFLEX" :> 194 @@ "A_TILDE" :> 195 @@ "A_DIAERESIS" :> 196 @@ "A_RING_ABOVE" :> 197 @@
  "AE" :> 198 @@ "C_CEDILLA" :> 199 @@ "E_GRAVE" :> 200 @@ "E_ACUTE" :> 201 @@
  "E_CIRCUMFLEX" :> 202 @@ "E_DIAERESIS" :> 203 @@ "I_GRAVE" :> 204 @@ "I_ACUTE" :> 205 @@
  "I_CIRCUMFLEX" :> 206 @@ "I_DIAERESIS" :> 207 @@ "ETH" :> 208 @@ "N_TILDE" :> 209 @@
  "O_GRAVE" :> 210 @@ "O_ACUTE" :> 211 @@ "O_CIRCUMFLEX" :> 212 @@ "O_TILDE" :> 213 @@
  "O_DIAERESIS" :> 214 @@ "O_STROKE" :> 216 @@ "U_GRAVE" :> 217 @@ "U_ACUTE" :> 218 @@
  "U_CIRCUMFLEX" :> 219 @@ "U_DIAERESIS" :> 220 @@ "Y_ACUTE" :> 221 @@ "THORN" :> 222 @@
  "sharp_s" :> 223 @@ "a_grave" :> 224 @@ "a_acute" :> 225 @@ "a_circumflex" :> 226 @@
  "a_tilde" :> 227 @@ "a_diaeresis" :> 228 @@ "a_ring_above" :> 229 @@ "ae" :> 230 @@
  "c_cedilla" :> 231 @@ "e_grave" :> 232 @@ "e_acute" :> 233 @@ "e_circumflex" :> 234 @@
  "e_diaeresis" :> 235 @@ "i_grave" :> 236 @@ "i_acute" :> 237 @@ "i_circumflex" :> 238 @@
  "i_diaeresis" :> 239 @@ "eth" :> 240 @@ "n_tilde" :> 241 @@ "o_grave" :> 242 @@
  "o_acute" :> 243 @@ "o_circumflex" :> 244 @@ "o_tilde" :> 245 @@ "o_diaeresis" :> 246 @@
  "o_stroke" :> 248 @@ "u_grave" :> 249 @@ "u_acute" :> 250 @@ "u_circumflex" :> 251 @@
  "u_diaeresis" :> 252 @@ "y_acute" :> 253 @@ "thorn" :> 254 @@ "y_diaeresis" :> 255 @@
  "l_stroke" :> 322 @@ "OE" :> 338 @@ "oe" :> 339 @@ "Y_DIAERESIS" :> 376 @@
  "ALPHA_TONOS" :> 902 @@ "EPSILON_TONOS" :> 904 @@ "ETA_TONOS" :> 905 @@
  "IOTA_TONOS" :> 906 @@ "OMICRON_TONOS" :> 908 @@ "UPSILON_TONOS" :> 910 @@
  "OMEGA_TONOS" :> 911 @@ "iota_dialytika_tonos" :> 912 @@ "ALPHA" :> 913 @@ "BETA" :> 914 @@
  "GAMMA" :> 915 @@ "DELTA" :> 916 @@ "EPSILON" :> 917 @@ "ZETA" :> 918 @@ "ETA" :> 919 @@
  "THETA" :> 920 @@ "IOTA" :> 921 @@ "KAPPA" :> 922 @@ "LAMDA" :> 923 @@ "MU" :> 924 @@
  "NU" :> 925 @@ "XI" :> 926 @@ "OMICRON" :> 927 @@ "PI" :> 928 @@ "RHO" :> 929 @@
  "SIGMA" :> 931 @@ "TAU" :> 932 @@ "UPSILON" :> 933 @@ "PHI" :> 934 @@ "CHI" :> 935 @@
  "PSI" :> 936 @@ "OMEGA" :> 937 @@ "IOTA_DIALYTIKA" :> 938 @@ "UPSILON_DIALYTIKA" :> 939 @@
  "alpha_tonos" :> 940 @@ "epsilon_tonos" :> 941 @@ "eta_tonos" :> 942 @@
  "iota_tonos" :> 943 @@ "upsilon_dialytika_tonos" :> 944 @@ "alpha" :> 945 @@ "beta" :> 946 @@
  "gamma" :> 947 @@ "delta" :> 948 @@ "epsilon" :> 949 @@ "zeta" :> 950 @@ "eta" :> 951 @@
  "theta" :> 952 @@ "iota" :> 953 @@ "kappa" :> 954 @@ "lamda" :> 955 @@ "mu" :> 956 @@
  "nu" :> 957 @@ "xi" :> 958 @@ "omicron" :> 959 @@ "pi" :> 960 @@ "rho" :> 961 @@
  "final_sigma" :> 962 @@ "sigma" :> 963 @@ "tau" :> 964 @@ "upsilon" :> 965 @@ "phi" :> 966 @@
  "chi" :> 967 @@ "psi" :> 968 @@ "omega" :> 969 @@ "iota_dialytika" :> 970 @@
  "upsilon_dialytika" :> 971 @@ "omicron_tonos" :> 972 @@ "upsilon_tonos" :> 973 @@
  "omega_tonos" :> 974 @@ "CYR_YA" :> 1071 @@ "cyr_ya" :> 1103 @@ "en_space" :> 8194 @@
  "en_dash" :> 8211 @@ "em_dash" :> 8212 @@ "single_low_9_quotation_mark" :> 8218 @@
  "double_low_9_quotation_mark" :> 8222 @@ "horizontal_ellipsis" :> 8230 @@
  "single_left_pointing_angle_quotation_mark" :> 8249 @@
  "single_right_pointing_angle_quotation_mark" :> 8250 @@ "euro_sign" :> 8364 @@
  "trade_mark_sign" :> 8482 @@ "vulgar_fraction_one_third" :> 8531 @@
  "vulgar_fraction_two_thirds" :> 8532 @@ "vulgar_fraction_one_eighth" :> 8539 @@
  "vulgar_fraction_three_eighths" :> 8540 @@ "vulgar_fraction_five_eighths" :> 8541 @@
  "vulgar_fraction_seven_eighths" :> 8542 @@ "minus_sign" :> 8722

\* The non-ASCII characters of the model for which str.isalnum() is true.
NonAsciiAlnum ==
  {
    "a_acute", "a_grave", "a_diaeresis", "a_circumflex", "a_tilde", "a_ring_above", "e_acute",
    "e_grave", "e_diaeresis", "e_circumflex", "i_acute", "i_grave", "i_diaeresis",
    "i_circumflex", "o_acute", "o_grave", "o_diaeresis", "o_circumflex", "o_tilde", "o_stroke",
    "u_acute", "u_grave", "u_diaeresis", "u_circumflex", "y_acute", "y_diaeresis", "n_tilde",
    "c_cedilla", "sharp_s", "ae", "oe", "eth", "thorn",
    "vulgar_fraction_one_half", "vulgar_fraction_one_third", "vulgar_fraction_one_quarter",
    "vulgar_fraction_three_quarters", "vulgar_fraction_one_eighth",
    "vulgar_fraction_three_eighths", "vulgar_fraction_five_eighths",
    "vulgar_fraction_seven_eighths", "superscript_two", "superscript_three", "superscript_one",
    "ALPHA", "alpha", "alpha_tonos", "ALPHA_TONOS", "BETA", "beta", "GAMMA", "gamma", "DELTA",
    "delta", "EPSILON", "epsilon", "epsilon_tonos", "EPSILON_TONOS", "ZETA", "zeta", "ETA",
    "eta", "eta_tonos", "ETA_TONOS", "THETA", "theta", "IOTA", "iota", "iota_tonos",
    "iota_dialytika", "iota_dialytika_tonos", "IOTA_TONOS", "IOTA_DIALYTIKA", "KAPPA", "kappa",
    "LAMDA", "lamda", "MU", "mu", "NU", "nu", "XI", "xi", "OMICRON", "omicron",
    "omicron_tonos", "OMICRON_TONOS", "PI", "pi", "RHO", "rho", "SIGMA", "sigma",
    "final_sigma", "TAU", "tau", "UPSILON", "upsilon", "upsilon_tonos", "upsilon_dialytika",
    "upsilon_dialytika_tonos", "UPSILON_TONOS", "UPSILON_DIALYTIKA", "PHI", "phi", "CHI",
    "chi", "PSI", "psi", "OMEGA", "omega", "omega_tonos", "OMEGA_TONOS", "A_ACUTE", "A_GRAVE",
    "A_DIAERESIS", "A_CIRCUMFLEX", "A_TILDE", "A_RING_ABOVE", "E_ACUTE", "E_GRAVE",
    "E_DIAERESIS", "E_CIRCUMFLEX", "I_ACUTE", "I_GRAVE", "I_DIAERESIS", "I_CIRCUMFLEX",
    "O_ACUTE", "O_GRAVE", "O_DIAERESIS", "O_CIRCUMFLEX", "O_TILDE", "O_STROKE", "U_ACUTE",
    "U_GRAVE", "U_DIAERESIS", "U_CIRCUMFLEX", "Y_ACUTE", "Y_DIAERESIS", "N_TILDE", "C_CEDILLA",
    "AE", "OE", "ETH", "THORN", "cyr_ya", "CYR_YA", "vulgar_fraction_two_thirds", "l_stroke"
  }

\* The characters of the model for which str.isspace() is true (the class \s of re).
Whitespace == {" ", "tab", "no_break_space", "en_space"}

(***************************************************************************)
(* Python string operations.                                               *)
(***************************************************************************)
\* c.isascii(), for one character.
IsAscii(c) == c \in AsciiLower \cup AsciiUpper \cup Digits \cup AsciiOther

\* c.isalnum(), for one character: Unicode letters and numeric characters count.
IsAlnum(c) == c \in AsciiLower \cup AsciiUpper \cup Digits \cup NonAsciiAlnum

\* c.lower(), for one character.
LowerChar(c) ==
  IF c \in DOMAIN AsciiToLower THEN AsciiToLower[c]
  ELSE IF c \in DOMAIN NonAsciiLower THEN NonAsciiLower[c]
  ELSE c

\* s.lower()
Lower(s) == [i \in 1..Len(s) |-> LowerChar(s[i])]

\* s[i:] of Python with a 1-based i.
Tail_From(s, i) == SubSeq(s, i, Len(s))

\* True when the non-empty string old stands in s at position i (1 <= i <= Len(s)).
MatchAt(s, old, i) ==
  /\ s[i] = old[1]
  /\ i + Len(old) - 1 <= Len(s)
  /\ \A k \in 2..Len(old) : s[i + k - 1] = old[k]

\* old in s
Contains(s, old) == \E i \in 1..Len(s) : MatchAt(s, old, i)

RECURSIVE ReplaceFrom(_, _, _, _)
ReplaceFrom(s, old, new, i) ==
  IF i > Len(s) THEN <<>>
  ELSE IF MatchAt(s, old, i) THEN new \o ReplaceFrom(s, old, new, i + Len(old))
  ELSE <<s[i]>> \o ReplaceFrom(s, old, new, i + 1)

\* s.replace(old, new) for a non-empty old: the non-overlapping occurrences, left to right.
Replace(s, old, new) == IF Contains(s, old) THEN ReplaceFrom(s, old, new, 1) ELSE s

RECURSIVE LStrip(_, _)
LStrip(s, chars) ==
  IF s # <<>> /\ Head(s) \in chars THEN LStrip(Tail(s), chars) ELSE s

RECURSIVE RStrip(_, _)
RStrip(s, chars) ==
  IF s # <<>> /\ s[Len(s)] \in chars THEN RStrip(SubSeq(s, 1, Len(s) - 1), chars) ELSE s

\* s.strip(chars); s.strip() is Strip(s, Whitespace).
Strip(s, chars) == RStrip(LStrip(s, chars), chars)

(***************************************************************************)
(* sanitize_folder_name, step by step.                                     *)
(***************************************************************************)
Unknown == <<"u", "n", "k", "n", "o", "w", "n">>

\* The empty-bracket literals of line 39.
EmptyBrackets ==
  {<<"(", " ", ")">>, <<"(", ")">>, <<"[", " ", "]">>, <<"[", "]">>, <<"{", " ", "}">>,
   <<"{", "}">>}

IsEmptyName_NoBrackets(name) == name = <<>> \/ Strip(name, Whitespace) = <<>>

\* Lines 35-40: the inputs answered "unknown" before the pipeline runs.
IsEmptyName(name) ==
  \/ name = <<>>
  \/ Strip(name, Whitespace) = <<>>
  \/ Strip(name, Whitespace) \in EmptyBrackets

\* re.sub(r'\s+', '-', s): every maximal run of whitespace becomes one dash.
RECURSIVE CollapseWhitespace(_)
CollapseWhitespace(s) ==
  IF s = <<>> THEN <<>>
  ELSE IF Head(s) \in Whitespace
       THEN <<"-">> \o CollapseWhitespace(LStrip(s, Whitespace))
       ELSE <<Head(s)>> \o CollapseWhitespace(Tail(s))

\* The pattern ([a-z])_([a-z])(?![a-z]) matches at position i.
UnderscoreMatchAt(s, i) ==
  /\ i + 2 <= Len(s)
  /\ s[i] \in AsciiLower
  /\ s[i + 1] = "_"
  /\ s[i + 2] \in AsciiLower
  /\ (i + 3 <= Len(s) => s[i + 3] \notin AsciiLower)

\* re.sub(r'([a-z])_([a-z])(?![a-z])', r'\1\2', s): the scan goes left to right and
\* resumes after each match, so the letters of a match are not matched again.
RECURSIVE MergeUnderscoresFrom(_, _)
MergeUnderscoresFrom(s, i) ==
  IF i > Len(s) THEN <<>>
  ELSE IF UnderscoreMatchAt(s, i)
       THEN <<s[i], s[i + 2]>> \o MergeUnderscoresFrom(s, i + 3)
       ELSE <<s[i]>> \o MergeUnderscoresFrom(s, i + 1)

\* Lines 52-53.
ResolveUnderscores(s) == Replace(MergeUnderscoresFrom(s, 1), <<"_">>, <<"-">>)

\* s.replace(c, "") for every string c of the sequence cs, in order.
RECURSIVE RemoveAllFrom(_, _, _)
RemoveAllFrom(s, cs, i) ==
  IF i > Len(cs) \/ s = <<>> THEN s ELSE RemoveAllFrom(Replace(s, cs[i], <<>>), cs, i + 1)

RemoveAll(s, cs) == RemoveAllFrom(s, cs, 1)

\* Line 56.
StripBrackets(s) == RemoveAll(s, << <<"[">>, <<"]">>, <<"{">>, <<"}">> >>)

\* Lines 59-61.
DeletePunctuation(s) ==
  RemoveAll(s, << <<"&">>, <<"'">>, <<"double_quote">>, <<".">>, <<"!">>, <<"?">>, <<";">>, <<":">> >>)

\* for k, v in m.items(): s = s.replace(k, v), in the dictionary's order.
RECURSIVE ApplyMapFrom(_, _, _)
ApplyMapFrom(s, m, i) ==
  IF i > Len(m) \/ s = <<>> THEN s ELSE ApplyMapFrom(Replace(s, m[i][1], m[i][2]), m, i + 1)

ApplyMap(s, m) == ApplyMapFrom(s, m, 1)

\* Lines 122-123.
ApplyAccents(s) == ApplyMap(s, accent_map)

\* The replacement words of line 129.
FractionWords ==
  {<<"h", "a", "l", "f">>, <<"t", "h", "i", "r", "d">>, <<"q", "u", "a", "r", "t", "e", "r">>,
   <<"t", "h", "r", "e", "e", "-", "q", "u", "a", "r", "t", "e", "r", "s">>,
   <<"e", "i", "g", "h", "t", "h">>,
   <<"t", "h", "r", "e", "e", "-", "e", "i", "g", "h", "t", "h", "s">>,
   <<"f", "i", "v", "e", "-", "e", "i", "g", "h", "t", "h", "s">>,
   <<"s", "e", "v", "e", "n", "-", "e", "i", "g", "h", "t", "h", "s">>}

SymbolReplacement_BothDashes(replacement) ==
  IF replacement \in FractionWords THEN <<"-">> \o replacement \o <<"-">> ELSE replacement

\* Lines 127-134: what a symbol is replaced by.
SymbolReplacement(replacement) ==
  IF replacement # <<>>
  THEN IF replacement \in FractionWords THEN <<"-">> \o replacement ELSE replacement
  ELSE replacement

\* Lines 126-134.
ApplySymbols(s) ==
  ApplyMap(s, [i \in 1..Len(symbol_map) |->
                 <<symbol_map[i][1], SymbolReplacement(symbol_map[i][2])>>])

\* Lines 137-138.
RemoveChars(s) == RemoveAll(s, remove_chars)

\* Lines 141-142.
ApplyGreek(s) == ApplyMap(s, greek_map)

\* Line 145.
KeepAlnumOrDash(c) == IsAlnum(c) \/ c = "-"

FilterSpecial(s) == SelectSeq(s, KeepAlnumOrDash)

CollapseDashes_Once(s) == Replace(s, <<"-", "-">>, <<"-">>)

\* Lines 148-149.
RECURSIVE CollapseDashes(_)
CollapseDashes(s) ==
  IF Contains(s, <<"-", "-">>) THEN CollapseDashes(Replace(s, <<"-", "-">>, <<"-">>)) ELSE s

StripDashes_LeadingOnly(s) == LStrip(s, {"-"})

\* Line 152.
StripDashes(s) == Strip(s, {"-"})

FinalFallback_Missing(s) == s

\* Lines 155-158.
FinalFallback(s) == IF s = <<>> THEN Unknown ELSE s

\* Lines 44-152: the pipeline, from lower() to strip('-').
Pipeline(name) ==
  LET lowered    == Lower(name)
      dashed     == CollapseWhitespace(lowered)
      underscore == ResolveUnderscores(dashed)
      brackets   == StripBrackets(underscore)
      deleted    == DeletePunctuation(brackets)
      accents    == ApplyAccents(deleted)
      symbols    == ApplySymbols(accents)
      removed    == RemoveChars(symbols)
      greek      == ApplyGreek(removed)
      filtered   == FilterSpecial(greek)
      collapsed  == CollapseDashes(filtered)
  IN  StripDashes(collapsed)

\* Lines 154-158: the result for what the pipeline left, and the return statement taken.
PipelineResult(stripped) ==
  [path |-> IF stripped = <<>> THEN "fallback" ELSE "normal", value |-> FinalFallback(stripped)]

\* One run of sanitize_folder_name: the value returned and the return statement that gave
\* it: "early" (lines 36 and 40), "fallback" (line 156) or "normal" (line 158).
SanitizeRun(name) ==
  IF IsEmptyName(name) THEN [path |-> "early", value |-> Unknown]
  ELSE PipelineResult(Pipeline(name))

\* sanitize_folder_name(name)
sanitize_folder_name(name) == SanitizeRun(name).value

(***************************************************************************)
(* FolderMigrator (regenerate_all_with_migration.py).                      *)
(* A base directory holds a set of folder names; nested is the set of      *)
(* <<parent, child>> pairs of folders that lie one level below a folder.   *)
(***************************************************************************)
\* Python's None, and the empty string: both are false in `if existing_folder:`.
None == <<>>

\* FolderMigrator.__init__: the three lists of a fresh migrator.
NewMigrator == [migrations_needed |-> <<>>, migrations_completed |-> <<>>, conflicts |-> <<>>]

AnalyzeFolder_MissingFirst(fs, current_name, expected_name) ==
  IF current_name \notin fs THEN "missing"
  ELSE IF current_name = expected_name THEN "correct"
  ELSE IF expected_name \in fs THEN "conflict"
  ELSE "needs_migration"

\* FolderMigrator.analyze_folder over the folders fs of base_path.
AnalyzeFolder(fs, current_name, expected_name) ==
  IF current_name = expected_name THEN "correct"
  ELSE IF current_name \notin fs THEN "missing"
  ELSE IF expected_name \in fs THEN "conflict"
  ELSE "needs_migration"

\* shutil.move(base/old, base/new) on directories.  ok is FALSE when it raises:
\*  - the source does not exist, or the operating system refuses (io_error);
\*  - the target is an existing directory that already holds an entry named old.
\* With an existing target directory the source is moved INTO it.
ShutilMove(fs, nst, old, new, io_error) ==
  IF old \notin fs \/ io_error THEN [ok |-> FALSE, folders |-> fs, nested |-> nst]
  ELSE IF new \notin fs
  THEN [ok |-> TRUE,
        folders |-> (fs \ {old}) \cup {new},
        nested |-> {IF p[1] = old THEN <<new, p[2]>> ELSE p : p \in nst}]
  ELSE IF old = new THEN [ok |-> TRUE, folders |-> fs, nested |-> nst]
  ELSE IF <<new, old>> \in nst THEN [ok |-> FALSE, folders |-> fs, nested |-> nst]
  ELSE [ok |-> TRUE,
        folders |-> fs \ {old},
        nested |-> {p \in nst : p[1] # old} \cup {<<new, old>>}]

MigrateFolder_IgnoreDryRun(m, dry, fs, nst, old_name, new_name, io_error) ==
  LET mv == ShutilMove(fs, nst, old_name, new_name, io_error)
  IN  [ret |-> TRUE, migrator |-> m, folders |-> mv.folders, nested |-> mv.nested,
       moved |-> mv.ok, error |-> FALSE]

MigrateFolder_AppendFirst(m, dry, fs, nst, old_name, new_name, io_error) ==
  IF dry
  THEN [ret |-> TRUE, migrator |-> m, folders |-> fs, nested |-> nst,
        moved |-> FALSE, error |-> FALSE]
  ELSE LET mv == ShutilMove(fs, nst, old_name, new_name, io_error)
           done == [m EXCEPT !.migrations_completed = Append(@, <<old_name, new_name>>)]
       IN  [ret |-> mv.ok, migrator |-> done, folders |-> mv.folders, nested |-> mv.nested,
            moved |-> mv.ok, error |-> ~mv.ok]

MigrateFolder_RecordInDryRun(m, dry, fs, nst, old_name, new_name, io_error) ==
  IF dry
  THEN [ret |-> TRUE,
        migrator |-> [m EXCEPT !.migrations_completed = Append(@, <<old_name, new_name>>)],
        folders |-> fs, nested |-> nst, moved |-> FALSE, error |-> FALSE]
  ELSE LET mv == ShutilMove(fs, nst, old_name, new_name, io_error)
       IN  IF mv.ok
           THEN [ret |-> TRUE,
                 migrator |-> [m EXCEPT !.migrations_completed =
                                           Append(@, <<old_name, new_name>>)],
                 folders |-> mv.folders, nested |-> mv.nested,
                 moved |-> TRUE, error |-> FALSE]
           ELSE [ret |-> FALSE, migrator |-> m, folders |-> fs, nested |-> nst,
                 moved |-> FALSE, error |-> TRUE]

\* FolderMigrator.migrate_folder on the migrator m.  moved: shutil.move returned;
\* error: the except branch ran (logger.error).
MigrateFolder(m, dry, fs, nst, old_name, new_name, io_error) ==
  IF dry
  THEN [ret |-> TRUE, migrator |-> m, folders |-> fs, nested |-> nst,
        moved |-> FALSE, error |-> FALSE]
  ELSE LET mv == ShutilMove(fs, nst, old_name, new_name, io_error)
       IN  IF mv.ok
           THEN [ret |-> TRUE,
                 migrator |-> [m EXCEPT !.migrations_completed =
                                           Append(@, <<old_name, new_name>>)],
                 folders |-> mv.folders, nested |-> mv.nested,
                 moved |-> TRUE, error |-> FALSE]
           ELSE [ret |-> FALSE, migrator |-> m, folders |-> fs, nested |-> nst,
                 moved |-> FALSE, error |-> TRUE]

(***************************************************************************)
(* find_existing_folder (regenerate_all_with_migration.py).                *)
(***************************************************************************)
\* Lines 89-96: the variations of the name, in the order they are tried.
Variations(artist_name) ==
  LET low == Lower(artist_name)
      dashed == Replace(low, <<" ">>, <<"-">>)
  IN  <<artist_name, low, dashed, Replace(low, <<" ">>, <<"_">>), SelectSeq(dashed, IsAscii)>>

\* Lines 98-103: with an id, every variation gets "-<id>" appended.
VariationsWithId(artist_name, discogs_id) ==
  IF discogs_id # None
  THEN [i \in 1..5 |-> Variations(artist_name)[i] \o <<"-">> \o discogs_id]
  ELSE Variations(artist_name)

\* Lines 110-114: the folders the scan of base_path.iterdir() accepts.
PartialMatches(fs, artist_name, discogs_id) ==
  IF Len(artist_name) > 5
  THEN LET key_part == Lower(SubSeq(artist_name, 1, 5))
       IN  {f \in fs : /\ Contains(Lower(f), key_part)
                       /\ (discogs_id = None \/ Contains(f, discogs_id))}
  ELSE {}

\* find_existing_folder: the set of values it can return.  The first existing variation
\* wins; otherwise the first accepted folder in directory order, and that order is the
\* operating system's, so any accepted folder can be the one returned.
find_existing_folder(fs, artist_name, discogs_id) ==
  LET variations == VariationsWithId(artist_name, discogs_id)
      hits == {i \in 1..5 : variations[i] \in fs}
  IN  IF hits # {}
      THEN {variations[CHOOSE i \in hits : \A j \in hits : i <= j]}
      ELSE IF PartialMatches(fs, artist_name, discogs_id) # {}
           THEN PartialMatches(fs, artist_name, discogs_id)
           ELSE {None}

(***************************************************************************)
(* Bounds and inputs.                                                      *)
(***************************************************************************)
\* The longest generated input string of the sanitizer.
MaxLen == 3

\* The most folders on disk (both base directories together) when a run starts.
MaxFolders == 2

\* The most releases in the database.
MaxReleases == 2

\* The most calls made on one FolderMigrator in the specification of its methods.
MaxCalls == 3

\* The longest string given to similarity_score.
MaxSimLen == 3

\* The characters of the strings given to similarity_score.
SimAlphabet == {"a", "b", "c", "A"}

\* The number of releases whose expected folder names are compared.
MaxNamed == 2

\* Titles that sanitize to the same slug, to "unknown", and one that ends like an id.
NamedTitles ==
  {<<"S", "o">>, <<"S", "O">>, <<"S", "o", "-", "1">>, <<"(", " ", ")">>, <<"-">>}

\* str(release.discogs_id); one identifier with a dash in it.
NamedIds == {<<"7">>, <<"1", "7">>, <<"1", "-", "7">>}

NamedReleases == {[title |-> t, discogs_id |-> i] : t \in NamedTitles, i \in NamedIds}

\* One or two characters of every class the pipeline tells apart.
SanAlphabet ==
  {"a", "G", "4", " ", "_", "-", "(", "en_dash", "vulgar_fraction_one_half", "o_diaeresis",
   "theta", "cyr_ya", "vulgar_fraction_two_thirds"}

\* All strings over alphabet of length at most n.
BoundedSeq(alphabet, n) == UNION {[1..k -> alphabet] : k \in 0..n}

\* The names of the docstring and of the specification's scenarios.
KnownNames ==
  {<<"B", "j", "o_diaeresis", "r", "k">>,
   <<"(", " ", ")">>,
   <<"4", "vulgar_fraction_one_half">>,
   <<"G", "_", "d", "'", "s", " ", "P", "u", "z", "z", "l", "e">>,
   <<"T", "h", "e", "_", "P", "u", "z", "z", "l", "e">>,
   <<"x", "superscript_two">>,
   <<"(", ")">>, <<"[", " ", "]">>, <<"[", "]">>, <<"{", " ", "}">>, <<"{", "}">>,
   <<"a", "_", "b", "_", "c">>,
   <<"a", " ", "-", " ", "b">>,
   <<"4", "vulgar_fraction_one_third", "a">>,
   <<"4", "vulgar_fraction_one_quarter", "a">>,
   <<"4", "vulgar_fraction_three_quarters", "a">>,
   <<"4", "vulgar_fraction_one_eighth", "a">>,
   <<"4", "vulgar_fraction_three_eighths", "a">>,
   <<"4", "vulgar_fraction_five_eighths", "a">>,
   <<"4", "vulgar_fraction_seven_eighths", "a">>,
   <<"x", "superscript_one", "a">>,
   <<"x", "superscript_two", "a">>,
   <<"x", "superscript_three", "a">>}

SanInputs == BoundedSeq(SanAlphabet, MaxLen) \cup KnownNames

\* Artist names and release titles of the database.
Prince == <<"P", "r", "i", "n", "c", "e">>
Princess == <<"P", "r", "i", "n", "c", "e", "s", "s">>
BigL == <<"B", "i", "g", " ", "L">>
SoTitle == <<"S", "o">>
PrinceUpper == <<"P", "R", "I", "N", "C", "E">>
SoUpper == <<"S", "O">>

\* Artists of the reconciler's scenarios: one with two slugs, one whose slug is the second
\* slug of the first, one that resembles both.
TheWho == <<"T", "h", "e", " ", "W", "h", "o">>
Who == <<"W", "h", "o">>
Whom == <<"W", "h", "o", "m">>

NameUniverse == {Prince, Princess, BigL, SoTitle, PrinceUpper, SoUpper}

\* The names the artists table can hold.
ArtistUniverse == NameUniverse \cup {TheWho, Who, Whom}

\* The releases the database can hold: title, discogs_id (as str() gives it), artists.
ReleaseUniverse ==
  {[title |-> SoTitle, discogs_id |-> <<"7">>, artists |-> <<Prince>>],
   [title |-> Prince, discogs_id |-> <<"1", "7">>, artists |-> <<Prince, Princess>>],
   [title |-> Princess, discogs_id |-> <<"7">>, artists |-> <<Princess, BigL>>]}

\* The databases: up to MaxReleases different releases, in any order.
Databases ==
  {db \in BoundedSeq(ReleaseUniverse, MaxReleases) :
     \A i, j \in 1..Len(db) : i # j => db[i] # db[j]}

\* The most folders in the artist directory when the reconciler with arguments starts.
MaxRecFolders == 3

\* The most entities of a migration loop that is run dry and real side by side.
MaxPreviewEntities == 3

\* The most folders in the base directory of that loop.
MaxPreviewFolders == 2

\* The most rows in the artists table when the reconciler with arguments starts.
MaxRows == 3

\* The rows of the artists table in the reconciler's scenarios: two artists have the same
\* name.
RecRows ==
  {[id |-> 1, name |-> TheWho], [id |-> 2, name |-> Who], [id |-> 3, name |-> Whom],
   [id |-> 4, name |-> Whom]}

RecTables == {t \in SUBSET RecRows : Cardinality(t) <= MaxRows}

\* The folders of the artist directory in the reconciler's scenarios.
RecFolders ==
  {<<"t", "h", "e", "-", "w", "h", "o">>, <<"w", "h", "o">>, <<"w", "h", "o", "m">>,
   <<"w", "h", "o", "a">>, <<"w", "h", "o", "m", "a">>}

\* --threshold: 0.5, 0.8 (the default) and 1.0.
Thresholds == {[num |-> 1, den |-> 2], [num |-> 4, den |-> 5], [num |-> 1, den |-> 1]}

Bases == {"artist", "album"}

\* The folder names a base directory can hold when a run starts.
FolderUniverse ==
  [artist |-> {Prince, Lower(Prince), Lower(Princess), BigL,
               <<"b", "i", "g", "-", "l">>, <<"b", "i", "g", "_", "l">>},
   album  |-> {<<"S", "o", "-", "7">>, <<"s", "o", "-", "7">>,
               <<"p", "r", "i", "n", "c", "e", "-", "1", "7">>,
               <<"P", "r", "i", "n", "c", "e", "-", "1", "7">>,
               <<"p", "r", "i", "n", "c", "e", "s", "s", "-", "7">>}]

\* The disks a run can start from: a base directory that does not exist holds nothing.
InitialDisks ==
  {d \in [exists : [Bases -> BOOLEAN],
          folders : [artist : SUBSET FolderUniverse.artist,
                     album : SUBSET FolderUniverse.album]] :
     /\ Cardinality(d.folders.artist) + Cardinality(d.folders.album) <= MaxFolders
     /\ \A b \in Bases : ~d.exists[b] => d.folders[b] = {}}

\* sanitize_folder_name on the names of the database, computed once.
Sanitized == [n \in NameUniverse |-> sanitize_folder_name(n)]

\* Lines 174 and 202: the expected folder of an artist (no id) or of a release.
ExpectedFolder(name, discogs_id) ==
  IF discogs_id = None THEN Sanitized[name] ELSE Sanitized[name] \o <<"-">> \o discogs_id

\* Lines 159-167: the unique artists of the releases, in order of first appearance.
RECURSIVE AllArtists(_)
AllArtists(rels) ==
  IF rels = <<>> THEN <<>> ELSE Head(rels).artists \o AllArtists(Tail(rels))

RECURSIVE FirstOccurrences(_, _)
FirstOccurrences(names, seen) ==
  IF names = <<>> THEN <<>>
  ELSE IF Head(names) \in seen THEN FirstOccurrences(Tail(names), seen)
  ELSE <<Head(names)>> \o FirstOccurrences(Tail(names), seen \cup {Head(names)})

UniqueArtists(rels) == FirstOccurrences(AllArtists(rels), {})


\* The entities of a migration loop run dry and real side by side: artists, of which two
\* pairs have one expected folder, or releases.
PreviewArtists ==
  {[name |-> n, discogs_id |-> None] : n \in {Prince, Princess, PrinceUpper, SoTitle, SoUpper}}

PreviewReleases ==
  {[name |-> Prince, discogs_id |-> <<"1", "7">>], [name |-> Princess, discogs_id |-> <<"7">>],
   [name |-> SoTitle, discogs_id |-> <<"7">>]}

PreviewEntityLists ==
  {l \in BoundedSeq(PreviewArtists, MaxPreviewEntities)
          \cup BoundedSeq(PreviewReleases, MaxPreviewEntities) :
     \A i, j \in 1..Len(l) : i # j => l[i] # l[j]}

\* The folders of its base directory.
PreviewFolderUniverse ==
  {Lower(Princess), Lower(Prince), SoTitle, SoUpper, Lower(SoTitle),
   <<"p", "r", "i", "n", "c", "e", "s", "s", "-", "1", "7">>, <<"S", "o", "-", "7">>}

PreviewDisks == {fs \in SUBSET PreviewFolderUniverse : Cardinality(fs) <= MaxPreviewFolders}

(***************************************************************************)
(* SanitizationChecker (check_sanitization_changes.py).                    *)
(***************************************************************************)
\* SanitizationChecker.__init__: the four result lists.
NewChecker ==
  [changes_needed |-> <<>>, conflicts |-> <<>>, already_correct |-> <<>>,
   missing_folders |-> <<>>]

\* The value shown for an entity without a folder.
NotFound == <<"N", "O", "T", " ", "F", "O", "U", "N", "D">>

\* Lines 93-108: the variations of the name, in the order they are tried.
CheckerVariations(name, entity_id) ==
  LET low == Lower(name)
      dashed == Replace(low, <<" ">>, <<"-">>)
      variations == <<dashed, Replace(low, <<" ">>, <<"_">>), SelectSeq(dashed, IsAscii)>>
  IN  IF entity_id # None
      THEN [i \in 1..3 |-> variations[i] \o <<"-">> \o entity_id]
      ELSE variations

\* s.startswith(prefix)
StartsWith(s, prefix) ==
  Len(prefix) <= Len(s) /\ SubSeq(s, 1, Len(prefix)) = prefix

\* Lines 111-122: the folders the scan of base_path.iterdir() accepts.
CheckerScanMatches(fs, name, entity_id) ==
  IF entity_id # None
  THEN {f \in fs : Contains(f, entity_id)}
  ELSE LET name_start == IF Len(name) > 5 THEN Lower(SubSeq(name, 1, 5)) ELSE Lower(name)
       IN  {f \in fs : StartsWith(Lower(f), name_start)}

\* SanitizationChecker.find_existing_folder: the set of its outcomes.  The exact name
\* (lines 84-89, the sanitizer's, as ExpectedFolder computes it) wins, then the first existing variation, then the first accepted folder in directory
\* order (any accepted folder: the order is the operating system's).  The scan is reached
\* whenever nothing matched, and iterdir() of a base directory that does not exist raises
\* FileNotFoundError, which nothing catches.
SanitizationChecker_find_existing_folder(exists, fs, name, entity_id) ==
  LET test_name == ExpectedFolder(name, entity_id)
      variations == CheckerVariations(name, entity_id)
      hits == {i \in 1..3 : variations[i] \in fs}
      found(f) == [raised |-> FALSE, folder |-> f]
  IN  IF test_name \in fs THEN {found(test_name)}
      ELSE IF hits # {}
           THEN {found(variations[CHOOSE i \in hits : \A j \in hits : i <= j])}
      ELSE IF ~exists THEN {[raised |-> TRUE, folder |-> None]}
      ELSE IF CheckerScanMatches(fs, name, entity_id) # {}
           THEN {found(f) : f \in CheckerScanMatches(fs, name, entity_id)}
           ELSE {found(None)}

\* The status check_entity gives once the existing folder is known, lines 64-77.
CheckStatus(fs, existing_folder, expected_name) ==
  IF existing_folder = None THEN "missing"
  ELSE IF existing_folder = expected_name THEN "correct"
  ELSE IF expected_name \in fs THEN "conflict"
  ELSE "needs_change"

\* SanitizationChecker.check_entity (expected_name, lines 48-51, is ExpectedFolder): the set
\* of its outcomes, each the checker after the
\* call and the result returned, or the exception of find_existing_folder.
check_entity(checker, exists, fs, name, entity_id) ==
  LET expected_name == ExpectedFolder(name, entity_id)
  IN  {IF e.raised
       THEN [raised |-> TRUE, checker |-> checker, result |-> None]
       ELSE LET status == CheckStatus(fs, e.folder, expected_name)
                result == [name |-> name, id |-> entity_id,
                           expected_folder |-> expected_name,
                           current_folder |-> IF e.folder = None THEN NotFound ELSE e.folder,
                           status |-> status]
                list == CASE status = "missing" -> "missing_folders"
                          [] status = "correct" -> "already_correct"
                          [] status = "conflict" -> "conflicts"
                          [] OTHER -> "changes_needed"
            IN  [raised |-> FALSE,
                 checker |-> [checker EXCEPT ![list] = Append(@, result)],
                 result |-> result]
       : e \in SanitizationChecker_find_existing_folder(exists, fs, name, entity_id)}

(***************************************************************************)
(* ArtistFolderReconciler (artist_folder_reconciler.py).                   *)
(***************************************************************************)
\* a < b in the order of the code points, the order of SQLite's ORDER BY name.
RECURSIVE NameLess(_, _)
NameLess(a, b) ==
  IF b = <<>> THEN FALSE
  ELSE IF a = <<>> THEN TRUE
  ELSE IF Head(a) = Head(b) THEN NameLess(Tail(a), Tail(b))
  ELSE CodePoint[Head(a)] < CodePoint[Head(b)]

\* The names of a set, sorted.
RECURSIVE SortNames(_)
SortNames(names) ==
  IF names = {} THEN <<>>
  ELSE LET first == CHOOSE n \in names : \A o \in names \ {n} : NameLess(n, o)
       IN  <<first>> \o SortNames(names \ {first})

\* ArtistFolderReconciler.slugify, lines 43-79: only the plain space becomes a dash, the
\* accent map (the same table as the sanitizer's) is applied, what is neither alphanumeric
\* nor a dash is dropped, dashes are collapsed and stripped.  There is no fallback.
slugify(text) ==
  LET sanitized == Replace(Lower(text), <<" ">>, <<"-">>)
  IN  StripDashes(CollapseDashes(FilterSpecial(ApplyAccents(sanitized))))

\* re.sub(r'\s+' + word + '.*$', '', text, flags=re.IGNORECASE): the text up to the first
\* run of whitespace that the word follows (the names hold no line break).  When closing
\* is TRUE the pattern ends in '\)$': the text must end with ")" after the word.
CutSuffix(text, word, closing) ==
  LET n == Len(text)
      starts == {i \in 1..n :
                   /\ text[i] \in Whitespace
                   /\ \E j \in i..n :
                        /\ \A k \in i..j : text[k] \in Whitespace
                        /\ j + Len(word) <= n
                        /\ Lower(SubSeq(text, j + 1, j + Len(word))) = word
                        /\ closing => (text[n] = ")" /\ n > j + Len(word))}
  IN  IF starts = {} THEN text
      ELSE SubSeq(text, 1, (CHOOSE i \in starts : \A k \in starts : i <= k) - 1)

\* The suffix patterns of alternative_slugify, line 103, in its order.
SuffixPatterns ==
  <<[word |-> <<"(">>, closing |-> TRUE],
    [word |-> <<"f", "e", "a", "t", "u", "r", "i", "n", "g">>, closing |-> FALSE],
    [word |-> <<"f", "e", "a", "t", ".">>, closing |-> FALSE],
    [word |-> <<"f", "t", ".">>, closing |-> FALSE]>>

\* alternative_slugify before its last line: the alternatives in the order they are added.
Alternatives(text) ==
  LET text_lower == Lower(text)
      no_the == IF StartsWith(text_lower, <<"t", "h", "e", " ">>)
                THEN <<slugify(SubSeq(text, 5, Len(text)))>> ELSE <<>>
      legacy == IF Contains(text_lower, <<"&">>)
                THEN <<slugify(Replace(text_lower, <<"&">>, <<"a", "n", "d">>))>> ELSE <<>>
      cleaned(i) == CutSuffix(text, SuffixPatterns[i].word, SuffixPatterns[i].closing)
      cut(i) == IF cleaned(i) # text THEN <<slugify(cleaned(i))>> ELSE <<>>
  IN  <<slugify(text)>> \o no_the \o legacy \o cut(1) \o cut(2) \o cut(3) \o cut(4)

\* The elements of a sequence.
Range(s) == {s[i] : i \in 1..Len(s)}

\* The orders in which a set can be iterated.
Orders(s) == {p \in [1..Cardinality(s) -> s] : Range(p) = s}

\* list(set(alternatives)): the distinct alternatives in the order of the set's hash
\* table, which differs from process to process: every order is possible.
alternative_slugify(text) ==
  LET slugs == Range(Alternatives(text))
  IN  {p \in [1..Cardinality(slugs) -> slugs] : Range(p) = slugs}

\* slugify and alternative_slugify on the names of the database, computed once.
Slugs == [n \in ArtistUniverse |-> slugify(n)]

AlternativeSlugs == [n \in ArtistUniverse |-> alternative_slugify(n)]

\* get_public_artist_folders, lines 133-144: the directories of public_path that do not
\* start with a dot; an error of iterdir() is logged and leaves the set empty.
get_public_artist_folders(exists, fs) ==
  IF exists THEN {f \in fs : ~StartsWith(f, <<".">>)} ELSE {}

\* The first alternative slug, after the first element of the list, that is a folder;
\* None when there is none (lines 221-226).
RECURSIVE FirstAlternativeFrom(_, _, _)
FirstAlternativeFrom(alternative_slugs, public_folders, i) ==
  IF i > Len(alternative_slugs) THEN None
  ELSE IF alternative_slugs[i] \in public_folders THEN alternative_slugs[i]
  ELSE FirstAlternativeFrom(alternative_slugs, public_folders, i + 1)

RECURSIVE CoverageFrom_NoElse(_, _, _, _)
CoverageFrom_NoElse(db_artists, public_folders, i, acc) ==
  IF i > Len(db_artists) THEN acc
  ELSE LET artist == db_artists[i]
           alt == FirstAlternativeFrom(artist.alternative_slugs, public_folders, 2)
           exact == IF artist.slug \in public_folders
                    THEN [acc EXCEPT !.exact_matches = @ + 1,
                                     !.matched_folders = @ \cup {artist.slug}]
                    ELSE acc
           next == IF alt # None
                   THEN [exact EXCEPT !.alternative_matches = @ + 1,
                                      !.matched_folders = @ \cup {alt}]
                   ELSE IF artist.slug \in public_folders THEN exact
                   ELSE [exact EXCEPT !.missing_artists = Append(@, artist)]
       IN  CoverageFrom_NoElse(db_artists, public_folders, i + 1, next)

\* The loop of analyze_coverage, lines 211-226, from artist i on.
RECURSIVE CoverageFrom(_, _, _, _)
CoverageFrom(db_artists, public_folders, i, acc) ==
  IF i > Len(db_artists) THEN acc
  ELSE LET artist == db_artists[i]
           alt == FirstAlternativeFrom(artist.alternative_slugs, public_folders, 2)
           next ==
             IF artist.slug \in public_folders
             THEN [acc EXCEPT !.exact_matches = @ + 1,
                              !.matched_folders = @ \cup {artist.slug}]
             ELSE IF alt # None
             THEN [acc EXCEPT !.alternative_matches = @ + 1,
                              !.matched_folders = @ \cup {alt}]
             ELSE [acc EXCEPT !.missing_artists = Append(@, artist)]
       IN  CoverageFrom(db_artists, public_folders, i + 1, next)

\* analyze_coverage, lines 201-242, on the artists and folders it has read.  With no artist
\* in the database the percentage divides by zero.  orphaned_folders is the list of a set,
\* in no particular order; the percentage is kept as the fraction it is computed from.
analyze_coverage(db_artists, public_folders) ==
  LET acc == CoverageFrom(db_artists, public_folders, 1,
                          [exact_matches |-> 0, alternative_matches |-> 0,
                           missing_artists |-> <<>>, matched_folders |-> {}])
  IN  IF db_artists = <<>> THEN [raised |-> TRUE]
      ELSE [raised |-> FALSE,
            total_db_artists |-> Len(db_artists),
            total_public_folders |-> Cardinality(public_folders),
            exact_matches |-> acc.exact_matches,
            alternative_matches |-> acc.alternative_matches,
            total_matches |-> acc.exact_matches + acc.alternative_matches,
            missing_artists |-> acc.missing_artists,
            orphaned_folders |-> public_folders \ acc.matched_folders,
            coverage_percentage |->
              [numerator |-> (acc.exact_matches + acc.alternative_matches) * 100,
               denominator |-> Len(db_artists)]]

(***************************************************************************)
(* similarity_score: difflib.SequenceMatcher(None, a, b).ratio().          *)
(* Positions are 0-based and ranges half open, as in difflib; the strings  *)
(* of the model are far shorter than the 200 characters from which         *)
(* difflib's popularity heuristic begins.                                  *)
(***************************************************************************)
\* The length of the longest common run of a from i and of b from j, inside
\* a[i:ahi] and b[j:bhi].
RECURSIVE CommonRun(_, _, _, _, _, _)
CommonRun(a, b, i, ahi, j, bhi) ==
  IF i < ahi /\ j < bhi /\ a[i + 1] = b[j + 1]
    THEN 1 + CommonRun(a, b, i + 1, ahi, j + 1, bhi)
    ELSE 0

\* SequenceMatcher.find_longest_match(alo, ahi, blo, bhi): of the longest matching blocks
\* the one that starts earliest in a, and of those the one that starts earliest in b.
find_longest_match(a, b, alo, ahi, blo, bhi) ==
  LET blocks == {[i |-> i, j |-> j, size |-> CommonRun(a, b, i, ahi, j, bhi)] :
                   i \in alo..(ahi - 1), j \in blo..(bhi - 1)}
      best == {m \in blocks : m.size > 0 /\ \A n \in blocks : n.size <= m.size}
      first_a == {m \in best : \A n \in best : m.i <= n.i}
  IN  IF best = {} THEN [i |-> alo, j |-> blo, size |-> 0]
      ELSE CHOOSE m \in first_a : \A n \in first_a : m.j <= n.j

\* SequenceMatcher.get_matching_blocks, summed: the total size of the blocks found by
\* taking the longest match and then matching the pieces left and right of it.
RECURSIVE MatchedSize(_, _, _, _, _, _)
MatchedSize(a, b, alo, ahi, blo, bhi) ==
  IF alo >= ahi \/ blo >= bhi THEN 0
  ELSE LET m == find_longest_match(a, b, alo, ahi, blo, bhi)
       IN  IF m.size = 0 THEN 0
           ELSE m.size + MatchedSize(a, b, alo, m.i, blo, m.j)
                       + MatchedSize(a, b, m.i + m.size, ahi, m.j + m.size, bhi)

\* SequenceMatcher.ratio(): 2.0 * matches / length, and 1.0 for two empty strings.  The
\* float is kept as the fraction num / den.
ratio(a, b) ==
  IF Len(a) + Len(b) = 0 THEN [num |-> 1, den |-> 1]
  ELSE [num |-> 2 * MatchedSize(a, b, 0, Len(a), 0, Len(b)), den |-> Len(a) + Len(b)]

\* ArtistFolderReconciler.similarity_score(a, b).
similarity_score(a, b) == ratio(Lower(a), Lower(b))

\* Comparison of two scores: x >= y, x == y.
ScoreGeq(x, y) == x.num * y.den >= y.num * x.den
ScoreEq(x, y) == x.num * y.den = y.num * x.den

(***************************************************************************)
(* The expected folder name of a release.                                  *)
(***************************************************************************)
\* regenerate_all_with_migration.py, line 202.
MigratorExpectedFolder(title, discogs_id) ==
  sanitize_folder_name(title) \o <<"-">> \o discogs_id

CheckerExpectedName_NoId(name, entity_id) == sanitize_folder_name(name)

\* check_sanitization_changes.py, lines 48-51: an empty entity_id is false.
CheckerExpectedName(name, entity_id) ==
  IF entity_id # <<>> THEN sanitize_folder_name(name) \o <<"-">> \o entity_id
  ELSE sanitize_folder_name(name)

(***************************************************************************)
(* ArtistFolderReconciler.find_potential_matches.                          *)
(***************************************************************************)
\* Lines 152-157: the artists of which some alternative slug is a folder.
MatchedArtists(db_artists, public_folders) ==
  {db_artists[i].id :
     i \in {k \in 1..Len(db_artists) :
              Range(db_artists[k].alternative_slugs) \cap public_folders # {}}}

UnmatchedArtists_All(db_artists, matched_artists) == db_artists

\* Line 160.
UnmatchedArtists(db_artists, matched_artists) ==
  LET unmatched(a) == a.id \notin matched_artists
  IN  SelectSeq(db_artists, unmatched)

\* Lines 162-168: of every matched artist the first alternative slug, in the order of its
\* list, that is a folder.
MatchedFolders(db_artists, matched_artists, public_folders) ==
  {FirstAlternativeFrom(db_artists[i].alternative_slugs, public_folders, 1) :
     i \in {k \in 1..Len(db_artists) : db_artists[k].id \in matched_artists}}

SlugMatchesFrom_NoThreshold(folder, artist, threshold, i) ==
  [k \in 1..Len(artist.alternative_slugs) |->
     [name |-> artist.name, score |-> similarity_score(folder, artist.alternative_slugs[k])]]

\* Lines 184-187: the matches by the alternative slugs of an artist, from the i-th on.
RECURSIVE SlugMatchesFrom(_, _, _, _)
SlugMatchesFrom(folder, artist, threshold, i) ==
  IF i > Len(artist.alternative_slugs) THEN <<>>
  ELSE LET slug_similarity == similarity_score(folder, artist.alternative_slugs[i])
       IN  (IF ScoreGeq(slug_similarity, threshold)
            THEN <<[name |-> artist.name, score |-> slug_similarity]>> ELSE <<>>)
           \o SlugMatchesFrom(folder, artist, threshold, i + 1)

\* Lines 177-187: the list matches of a folder, from the i-th unmatched artist on.
RECURSIVE MatchesFrom(_, _, _, _)
MatchesFrom(folder, unmatched_artists, threshold, i) ==
  IF i > Len(unmatched_artists) THEN <<>>
  ELSE LET artist == unmatched_artists[i]
           name_similarity == similarity_score(folder, artist.name)
       IN  (IF ScoreGeq(name_similarity, threshold)
            THEN <<[name |-> artist.name, score |-> name_similarity]>> ELSE <<>>)
           \o SlugMatchesFrom(folder, artist, threshold, 1)
           \o MatchesFrom(folder, unmatched_artists, threshold, i + 1)

\* Lines 191-194: unique_matches, a dict in the order of the first match of each name,
\* with the greatest score of the name.
RECURSIVE UniqueMatchesFrom(_, _, _)
UniqueMatchesFrom(matches, i, unique_matches) ==
  IF i > Len(matches) THEN unique_matches
  ELSE LET m == matches[i]
           at == {k \in 1..Len(unique_matches) : unique_matches[k].name = m.name}
           next == IF at = {} THEN Append(unique_matches, m)
                   ELSE LET k == CHOOSE k \in at : TRUE
                        IN  IF ~ScoreGeq(unique_matches[k].score, m.score)
                            THEN [unique_matches EXCEPT ![k].score = m.score]
                            ELSE unique_matches
       IN  UniqueMatchesFrom(matches, i + 1, next)

RECURSIVE SortedByScoreFrom_Unstable(_, _, _)
SortedByScoreFrom_Unstable(items, i, sorted) ==
  IF i > Len(items) THEN sorted
  ELSE LET before == {k \in 0..Len(sorted) :
                        \A l \in 1..k : ~ScoreGeq(items[i].score, sorted[l].score)}
           k == CHOOSE k \in before : \A l \in before : l <= k
       IN  SortedByScoreFrom_Unstable(items, i + 1,
             SubSeq(sorted, 1, k) \o <<items[i]>> \o SubSeq(sorted, k + 1, Len(sorted)))

\* Line 196: sorted(..., key=score, reverse=True); the sort is stable, items of equal score
\* keep their order.
RECURSIVE SortedByScoreFrom(_, _, _)
SortedByScoreFrom(items, i, sorted) ==
  IF i > Len(items) THEN sorted
  ELSE LET before == {k \in 0..Len(sorted) :
                        \A l \in 1..k : ScoreGeq(sorted[l].score, items[i].score)}
           k == CHOOSE k \in before : \A l \in before : l <= k
       IN  SortedByScoreFrom(items, i + 1,
             SubSeq(sorted, 1, k) \o <<items[i]>> \o SubSeq(sorted, k + 1, Len(sorted)))

\* Lines 175-197: sorted_matches of one orphaned folder; empty when matches is empty.
SortedMatches(folder, unmatched_artists, threshold) ==
  SortedByScoreFrom(
    UniqueMatchesFrom(MatchesFrom(folder, unmatched_artists, threshold, 1), 1, <<>>), 1, <<>>)

\* The number of calls of similarity_score for one folder.
RECURSIVE ScoresFor(_, _)
ScoresFor(unmatched_artists, i) ==
  IF i > Len(unmatched_artists) THEN 0
  ELSE 1 + Len(unmatched_artists[i].alternative_slugs) + ScoresFor(unmatched_artists, i + 1)

\* Lines 150-170: the sets found before the similarity loop.
ExactMatches(db_artists, public_folders) ==
  LET matched_artists == MatchedArtists(db_artists, public_folders)
      matched_folders == MatchedFolders(db_artists, matched_artists, public_folders)
  IN  [matched_artists |-> matched_artists,
       unmatched_artists |-> UnmatchedArtists(db_artists, matched_artists),
       matched_folders |-> matched_folders,
       orphaned_folders |-> public_folders \ matched_folders]
(***************************************************************************)
(* State.                                                                  *)
(***************************************************************************)
VARIABLES
  san_in,       \* sanitizer: the input string
  san_out,      \* sanitizer: the returned string
  san_pc,       \* sanitizer: "start" | "done" | "idle"
  san_path,     \* sanitizer: the return statement taken, "none" before the call
  tool,         \* the program that runs: "migrator" | "checker" | "reconciler" | "api" | "none"
  pc,           \* where main() stands
  dry_run,      \* --dry-run
  releases,     \* db.get_all_releases()
  base_exists,  \* per base directory: does it exist
  folders,      \* per base directory: the names of the folders in it
  nested,       \* per base directory: <<parent, child>> for folders inside a folder
  a_idx,        \* the artist loop: 1-based index of the next artist
  r_idx,        \* the release loop: 1-based index of the next release
  migrators,    \* artist_migrator and release_migrator
  mappings,     \* artist_mappings and release_mappings: old folder -> new folder
  error_log,    \* logger.error of migrate_folder: <<base, old, new>>; of a missing base
                \* directory: <<"error", base>>, and logger.warning of it: <<"warning", base>>
  last,         \* the last analyze_folder / migrate_folder call and its result
  calls,        \* the number of method calls made (specification of the methods)
  checkers,     \* artist_checker and release_checker
  analysis,     \* the result of analyze_coverage, None before it
  sim,          \* similarity_score: the two strings and the scores of both orders
  rec,          \* the reconciler: its arguments, the artists it read, find_potential_matches
  naming,       \* the expected folder names of some releases, by the migrator and the checker
  preview       \* one migration loop carried out twice from one disk: dry run and real run

san_vars == <<san_in, san_out, san_pc, san_path>>
disk_vars == <<base_exists, folders, nested>>
run_vars == <<tool, pc, dry_run, releases, a_idx, r_idx, migrators, mappings, error_log,
              last, calls, checkers, analysis, rec>>
fun_vars == <<san_vars, sim, naming, preview>>
vars == <<fun_vars, disk_vars, run_vars>>

NoCall ==
  [op |-> "none", base |-> "artist", name |-> None, old |-> None, new |-> None,
   status |-> "none", ret |-> FALSE, moved |-> FALSE, error |-> FALSE,
   target_existed |-> FALSE]

\* The reconciler without --find-matches, before it has read the database; table is the
\* artists table of the database: rows of id and name.
RecOff ==
  [table |-> {}, find_matches |-> FALSE, threshold |-> [num |-> 4, den |-> 5],
   db_artists |-> <<>>,
   exact |-> None, todo |-> <<>>, scores_taken |-> 0, potential_matches |-> <<>>]

SanIdle == san_in = <<>> /\ san_out = <<>> /\ san_pc = "idle" /\ san_path = "none"

NoScore == [num |-> 0, den |-> 1]

SimIdle == sim = [pc |-> "idle", a |-> <<>>, b |-> <<>>, ab |-> NoScore, ba |-> NoScore]

NamingIdle == naming = [pc |-> "idle", rels |-> <<>>, migrator |-> <<>>, checker |-> <<>>]

NoRun == [folders |-> {}, nested |-> {}, migrator |-> NewMigrator]

PreviewIdle ==
  preview = [pc |-> "idle", entities |-> <<>>, i |-> 1, before |-> {}, ambiguous |-> FALSE,
             real |-> NoRun, dry |-> NoRun]

FunIdle == SanIdle /\ SimIdle /\ NamingIdle /\ PreviewIdle

RunIdle ==
  /\ tool = "none" /\ pc = "idle" /\ dry_run = FALSE /\ releases = <<>>
  /\ base_exists = [b \in Bases |-> TRUE]
  /\ folders = [b \in Bases |-> {}]
  /\ nested = [b \in Bases |-> {}]
  /\ a_idx = 1 /\ r_idx = 1
  /\ migrators = [b \in Bases |-> NewMigrator]
  /\ mappings = [b \in Bases |-> <<>>]
  /\ error_log = <<>>
  /\ last = NoCall
  /\ calls = 0
  /\ checkers = [b \in Bases |-> NewChecker]
  /\ analysis = None
  /\ rec = RecOff

(***************************************************************************)
(* The sanitizer as a function: one call on any input.                     *)
(***************************************************************************)
InitSan ==
  /\ san_in \in SanInputs
  /\ san_out = <<>>
  /\ san_pc = "start"
  /\ san_path = "none"
  /\ SimIdle
  /\ NamingIdle
  /\ PreviewIdle
  /\ RunIdle

\* One call of sanitize_folder_name(san_in).
SanitizeCall ==
  /\ san_pc = "start"
  /\ LET run == SanitizeRun(san_in)
     IN  san_out' = run.value /\ san_path' = run.path
  /\ san_pc' = "done"
  /\ UNCHANGED <<san_in, sim, naming, preview, disk_vars, run_vars>>

NextSan == SanitizeCall

SpecSan == InitSan /\ [][NextSan]_vars

(***************************************************************************)
(* similarity_score as a function: one call for each order of a pair.      *)
(***************************************************************************)
InitSim ==
  /\ SanIdle
  /\ NamingIdle
  /\ PreviewIdle
  /\ sim \in {[pc |-> "start", a |-> a, b |-> b, ab |-> NoScore, ba |-> NoScore] :
                a \in BoundedSeq(SimAlphabet, MaxSimLen), b \in BoundedSeq(SimAlphabet, MaxSimLen)}
  /\ RunIdle

\* similarity_score(a, b) and similarity_score(b, a).
SimilarityCall ==
  /\ sim.pc = "start"
  /\ sim' = [sim EXCEPT !.pc = "done",
                        !.ab = similarity_score(sim.a, sim.b),
                        !.ba = similarity_score(sim.b, sim.a)]
  /\ UNCHANGED <<san_vars, naming, preview, disk_vars, run_vars>>

NextSim == SimilarityCall

SpecSim == InitSim /\ [][NextSim]_vars

(***************************************************************************)
(* The expected folder names of releases, as both tools compute them.      *)
(***************************************************************************)
InitNames ==
  /\ SanIdle
  /\ SimIdle
  /\ PreviewIdle
  /\ naming \in {[pc |-> "start", rels |-> rels, migrator |-> <<>>, checker |-> <<>>] :
                   rels \in [1..MaxNamed -> NamedReleases]}
  /\ RunIdle

\* expected_folder of the migrator's release loop and expected_name of check_entity, for
\* each of the releases.
ExpectedNames ==
  /\ naming.pc = "start"
  /\ naming' = [naming EXCEPT
                  !.pc = "done",
                  !.migrator = [k \in 1..Len(naming.rels) |->
                                  MigratorExpectedFolder(naming.rels[k].title,
                                                         naming.rels[k].discogs_id)],
                  !.checker = [k \in 1..Len(naming.rels) |->
                                 CheckerExpectedName(naming.rels[k].title,
                                                     naming.rels[k].discogs_id)]]
  /\ UNCHANGED <<san_vars, sim, preview, disk_vars, run_vars>>

NextNames == ExpectedNames

SpecNames == InitNames /\ [][NextNames]_vars

(***************************************************************************)
(* One migration loop of main(), dry run beside real run.                  *)
(***************************************************************************)
\* The body of a migration loop (lines 174-190 and 202-218) for one entity, as a function
\* of the run it belongs to: the folders of its base directory and its migrator.
\* existing_folder is what find_existing_folder returned; no rename is refused by the
\* operating system.
LoopOutcome(run, dry, entity, existing_folder) ==
  LET expected_folder == ExpectedFolder(entity.name, entity.discogs_id)
      status == IF existing_folder # None
                THEN AnalyzeFolder(run.folders, existing_folder, expected_folder)
                ELSE "not_found"
      pair == <<existing_folder, expected_folder>>
      needed == [run.migrator EXCEPT !.migrations_needed = Append(@, pair)]
      r == MigrateFolder(needed, dry, run.folders, run.nested, existing_folder,
                         expected_folder, FALSE)
  IN  IF status = "needs_migration"
      THEN [folders |-> r.folders, nested |-> r.nested, migrator |-> r.migrator]
      ELSE IF status = "conflict"
      THEN [run EXCEPT !.migrator.conflicts = Append(@, pair)]
      ELSE run

\* A base directory and a list of entities; the dry run and the real run start from the
\* same folders, each with a fresh migrator.
InitPreview ==
  /\ SanIdle
  /\ SimIdle
  /\ NamingIdle
  /\ \E entities \in PreviewEntityLists, fs \in PreviewDisks :
       preview = [pc |-> "loop", entities |-> entities, i |-> 1, before |-> fs,
                  ambiguous |-> FALSE,
                  real |-> [folders |-> fs, nested |-> {}, migrator |-> NewMigrator],
                  dry |-> [folders |-> fs, nested |-> {}, migrator |-> NewMigrator]]
  /\ RunIdle

\* One iteration of the loop in both runs.  ambiguous: find_existing_folder had more than
\* one folder to return, so its answer hung on the order of the directory.
PreviewStep ==
  /\ preview.pc = "loop" /\ preview.i <= Len(preview.entities)
  /\ LET entity == preview.entities[preview.i]
         found_real == find_existing_folder(preview.real.folders, entity.name, entity.discogs_id)
         found_dry == find_existing_folder(preview.dry.folders, entity.name, entity.discogs_id)
     IN  \E in_real \in found_real, in_dry \in found_dry :
           preview' = [preview EXCEPT
                         !.real = LoopOutcome(@, FALSE, entity, in_real),
                         !.dry = LoopOutcome(@, TRUE, entity, in_dry),
                         !.i = @ + 1,
                         !.ambiguous = @ \/ Cardinality(found_real) > 1
                                         \/ Cardinality(found_dry) > 1]
  /\ UNCHANGED <<san_vars, sim, naming, disk_vars, run_vars>>

\* The loop has gone through every entity: the migration summary.
PreviewSummary ==
  /\ preview.pc = "loop" /\ preview.i > Len(preview.entities)
  /\ preview' = [preview EXCEPT !.pc = "summary"]
  /\ UNCHANGED <<san_vars, sim, naming, disk_vars, run_vars>>

NextPreview == PreviewStep \/ PreviewSummary

SpecPreview == InitPreview /\ [][NextPreview]_vars

(***************************************************************************)
(* The methods of one FolderMigrator, called with any arguments.           *)
(***************************************************************************)
\* The folder names of this specification.
ApiNames == {<<"a">>, <<"b">>, <<"c">>}

InitApi ==
  /\ FunIdle
  /\ tool = "api" /\ pc = "idle" /\ releases = <<>>
  /\ dry_run \in BOOLEAN
  /\ base_exists = [b \in Bases |-> TRUE]
  /\ folders \in {[artist |-> fs, album |-> {}] : fs \in SUBSET ApiNames}
  /\ nested = [b \in Bases |-> {}]
  /\ a_idx = 1 /\ r_idx = 1
  /\ migrators = [b \in Bases |-> NewMigrator]
  /\ mappings = [b \in Bases |-> <<>>]
  /\ error_log = <<>>
  /\ last = NoCall
  /\ calls = 0
  /\ checkers = [b \in Bases |-> NewChecker]
  /\ analysis = None
  /\ rec = RecOff

\* artist_migrator.analyze_folder(current_name, expected_name)
AnalyzeCall ==
  /\ tool = "api" /\ calls < MaxCalls
  /\ \E current_name, expected_name \in ApiNames :
       last' = [NoCall EXCEPT !.op = "analyze", !.old = current_name, !.new = expected_name,
                              !.status = AnalyzeFolder(folders.artist, current_name,
                                                       expected_name),
                              !.target_existed = expected_name \in folders.artist]
  /\ calls' = calls + 1
  /\ UNCHANGED <<fun_vars, rec, checkers, analysis, disk_vars, tool, pc, dry_run, releases, a_idx,
                 r_idx, migrators, mappings, error_log>>

\* artist_migrator.migrate_folder(old_name, new_name)
MigrateCall ==
  /\ tool = "api" /\ calls < MaxCalls
  /\ \E old_name, new_name \in ApiNames, io_error \in BOOLEAN :
       LET r == MigrateFolder(migrators.artist, dry_run, folders.artist, nested.artist,
                              old_name, new_name, io_error)
       IN  /\ migrators' = [migrators EXCEPT !.artist = r.migrator]
           /\ folders' = [folders EXCEPT !.artist = r.folders]
           /\ nested' = [nested EXCEPT !.artist = r.nested]
           /\ error_log' = IF r.error THEN Append(error_log, <<"artist", old_name, new_name>>)
                           ELSE error_log
           /\ last' = [NoCall EXCEPT !.op = "migrate", !.old = old_name, !.new = new_name,
                                     !.ret = r.ret, !.moved = r.moved, !.error = r.error,
                                     !.target_existed = new_name \in folders.artist]
  /\ calls' = calls + 1
  /\ UNCHANGED <<fun_vars, rec, checkers, analysis, base_exists, tool, pc, dry_run, releases, a_idx,
                 r_idx, mappings>>

NextApi == AnalyzeCall \/ MigrateCall

SpecApi == InitApi /\ [][NextApi]_vars

(***************************************************************************)
(* main() of regenerate_all_with_migration.py.                             *)
(***************************************************************************)
artists == UniqueArtists(releases)

\* The artists table of a database with these releases: a row for every artist, the id is
\* the rowid.
ArtistsTable(names) == {[id |-> i, name |-> names[i]] : i \in 1..Len(names)}

\* The three command-line tools.
Tools == {"migrator", "checker", "reconciler"}

Init ==
  /\ FunIdle
  /\ tool \in Tools /\ pc = "start"
  /\ dry_run \in (IF tool = "migrator" THEN BOOLEAN ELSE {FALSE})
  /\ releases \in Databases
  /\ \E d \in InitialDisks : base_exists = d.exists /\ folders = d.folders
  /\ nested = [b \in Bases |-> {}]
  /\ a_idx = 1 /\ r_idx = 1
  /\ migrators = [b \in Bases |-> NewMigrator]
  /\ mappings = [b \in Bases |-> <<>>]
  /\ error_log = <<>>
  /\ last = NoCall
  /\ calls = 0
  /\ checkers = [b \in Bases |-> NewChecker]
  /\ analysis = None
  /\ rec = [RecOff EXCEPT !.table = ArtistsTable(artists)]

\* Lines 140-151: both base directories are created when absent, and the migrators.
MigratorStart ==
  /\ tool = "migrator" /\ pc = "start"
  /\ base_exists' = [b \in Bases |-> TRUE]
  /\ migrators' = [b \in Bases |-> NewMigrator]
  /\ pc' = "artists"
  /\ UNCHANGED <<fun_vars, rec, checkers, analysis, folders, nested, tool, dry_run, releases, a_idx,
                 r_idx, mappings, error_log, last, calls>>

\* The body of the two migration loops (lines 174-190 and 202-218) for one entity of the
\* base directory b: find, analyse, and migrate when needed.
LoopBody(b, name, discogs_id) ==
  LET expected_folder == ExpectedFolder(name, discogs_id)
  IN  \E existing_folder \in find_existing_folder(folders[b], name, discogs_id),
         io_error \in BOOLEAN :
        LET status == IF existing_folder # None
                      THEN AnalyzeFolder(folders[b], existing_folder, expected_folder)
                      ELSE "not_found"
            pair == <<existing_folder, expected_folder>>
            needed == [migrators[b] EXCEPT !.migrations_needed = Append(@, pair)]
            r == MigrateFolder(needed, dry_run, folders[b], nested[b], existing_folder,
                               expected_folder, io_error)
            call == [NoCall EXCEPT !.base = b, !.name = name, !.old = existing_folder,
                                   !.new = expected_folder, !.status = status,
                                   !.target_existed = expected_folder \in folders[b]]
        IN  IF status = "needs_migration"
            THEN /\ migrators' = [migrators EXCEPT ![b] = r.migrator]
                 /\ folders' = [folders EXCEPT ![b] = r.folders]
                 /\ nested' = [nested EXCEPT ![b] = r.nested]
                 /\ mappings' = IF r.ret
                                THEN [mappings EXCEPT ![b] = (existing_folder :> expected_folder) @@ @]
                                ELSE mappings
                 /\ error_log' = IF r.error THEN Append(error_log, <<b>> \o pair)
                                 ELSE error_log
                 /\ last' = [call EXCEPT !.op = "migrate", !.ret = r.ret, !.moved = r.moved,
                                         !.error = r.error]
            ELSE /\ migrators' = IF status = "conflict"
                                 THEN [migrators EXCEPT ![b].conflicts = Append(@, pair)]
                                 ELSE migrators
                 /\ last' = [call EXCEPT !.op = "analyze"]
                 /\ UNCHANGED <<folders, nested, mappings, error_log>>

\* One iteration of the artist loop, lines 173-190.
ArtistStep ==
  /\ tool = "migrator" /\ pc = "artists" /\ a_idx <= Len(artists)
  /\ LoopBody("artist", artists[a_idx], None)
  /\ a_idx' = a_idx + 1
  /\ UNCHANGED <<fun_vars, rec, checkers, analysis, base_exists, tool, pc, dry_run, releases, r_idx,
                 calls>>

\* The artist loop ends; phase 2 begins.
ArtistsDone ==
  /\ tool = "migrator" /\ pc = "artists" /\ a_idx > Len(artists)
  /\ pc' = "releases"
  /\ UNCHANGED <<fun_vars, rec, checkers, analysis, disk_vars, tool, dry_run, releases, a_idx,
                 r_idx, migrators, mappings, error_log, last, calls>>

\* One iteration of the release loop, lines 201-218.
ReleaseStep ==
  /\ tool = "migrator" /\ pc = "releases" /\ r_idx <= Len(releases)
  /\ LoopBody("album", releases[r_idx].title, releases[r_idx].discogs_id)
  /\ r_idx' = r_idx + 1
  /\ UNCHANGED <<fun_vars, rec, checkers, analysis, base_exists, tool, pc, dry_run, releases, a_idx,
                 calls>>

\* The release loop ends: the summary, and in dry-run mode the return of line 234.
ReleasesDone ==
  /\ tool = "migrator" /\ pc = "releases" /\ r_idx > Len(releases)
  /\ pc' = IF dry_run THEN "done" ELSE "regenerate"
  /\ UNCHANGED <<fun_vars, rec, checkers, analysis, disk_vars, tool, dry_run, releases, a_idx,
                 r_idx, migrators, mappings, error_log, last, calls>>

\* Phase 3, lines 244-291: mkdir(exist_ok=True) of the expected folder of every release
\* and of every artist, then the JSON files inside them.
Regenerate ==
  /\ tool = "migrator" /\ pc = "regenerate"
  /\ folders' =
       [artist |-> folders.artist \cup
                     {ExpectedFolder(artists[i], None) : i \in 1..Len(artists)},
        album  |-> folders.album \cup
                     {ExpectedFolder(releases[i].title, releases[i].discogs_id) :
                        i \in 1..Len(releases)}]
  /\ pc' = "done"
  /\ UNCHANGED <<fun_vars, rec, checkers, analysis, base_exists, nested, tool, dry_run, releases,
                 a_idx, r_idx, migrators, mappings, error_log, last, calls>>

\* The process is killed, or an error of the database layer escapes, in the middle of a
\* run: what the process held in memory is gone, the disk stays as it is.
Crash ==
  /\ tool = "migrator" /\ pc \in {"artists", "releases", "regenerate"}
  /\ pc' = "crashed"
  /\ a_idx' = 1 /\ r_idx' = 1
  /\ migrators' = [b \in Bases |-> NewMigrator]
  /\ mappings' = [b \in Bases |-> <<>>]
  /\ error_log' = <<>>
  /\ last' = NoCall
  /\ UNCHANGED <<fun_vars, rec, checkers, analysis, disk_vars, tool, dry_run, releases, calls>>

\* The tool is run again on the same database, with or without --dry-run.
Rerun ==
  /\ tool = "migrator" /\ pc \in {"done", "crashed"}
  /\ pc' = "start"
  /\ dry_run' \in BOOLEAN
  /\ a_idx' = 1 /\ r_idx' = 1
  /\ migrators' = [b \in Bases |-> NewMigrator]
  /\ mappings' = [b \in Bases |-> <<>>]
  /\ error_log' = <<>>
  /\ last' = NoCall
  /\ UNCHANGED <<fun_vars, rec, checkers, analysis, disk_vars, tool, releases, calls>>


(***************************************************************************)
(* main() of check_sanitization_changes.py.                                *)
(***************************************************************************)
\* Lines 169-171 and 219-221: a base directory that does not exist gets a warning ("This
\* is normal if you haven't processed any ... yet") and the run goes on.
WarnIfAbsent(b) ==
  IF base_exists[b] THEN error_log ELSE Append(error_log, <<"warning", b>>)

\* Lines 162-172: the artists phase begins.
CheckerStart ==
  /\ tool = "checker" /\ pc = "start"
  /\ error_log' = WarnIfAbsent("artist")
  /\ checkers' = [checkers EXCEPT !.artist = NewChecker]
  /\ pc' = "artists"
  /\ UNCHANGED <<fun_vars, rec, disk_vars, analysis, tool, dry_run, releases, a_idx, r_idx,
                 migrators, mappings, last, calls>>

\* One call of check_entity from a loop of main() (lines 187-188 and 227-228).  An
\* exception of the call ends the run with a traceback.
CheckLoopBody(b, name, entity_id) ==
  \E r \in check_entity(checkers[b], base_exists[b], folders[b], name, entity_id) :
    IF r.raised
    THEN /\ pc' = "crashed"
         /\ UNCHANGED <<checkers, last, a_idx, r_idx>>
    ELSE /\ checkers' = [checkers EXCEPT ![b] = r.checker]
         /\ last' = [NoCall EXCEPT !.op = "check", !.base = b, !.name = name,
                                   !.old = r.result.current_folder,
                                   !.new = r.result.expected_folder,
                                   !.status = r.result.status,
                                   !.target_existed = r.result.expected_folder \in folders[b]]
         /\ a_idx' = IF b = "artist" THEN a_idx + 1 ELSE a_idx
         /\ r_idx' = IF b = "album" THEN r_idx + 1 ELSE r_idx
         /\ pc' = pc

\* One iteration of the artist loop, lines 187-188.
CheckArtistStep ==
  /\ tool = "checker" /\ pc = "artists" /\ a_idx <= Len(artists)
  /\ CheckLoopBody("artist", artists[a_idx], None)
  /\ UNCHANGED <<fun_vars, rec, disk_vars, analysis, tool, dry_run, releases, migrators,
                 mappings, error_log, calls>>

\* The artist loop ends; lines 212-225: the releases phase begins.
CheckArtistsDone ==
  /\ tool = "checker" /\ pc = "artists" /\ a_idx > Len(artists)
  /\ error_log' = WarnIfAbsent("album")
  /\ checkers' = [checkers EXCEPT !.album = NewChecker]
  /\ pc' = "releases"
  /\ UNCHANGED <<fun_vars, rec, disk_vars, analysis, tool, dry_run, releases, a_idx, r_idx,
                 migrators, mappings, last, calls>>

\* One iteration of the release loop, lines 227-228.
CheckReleaseStep ==
  /\ tool = "checker" /\ pc = "releases" /\ r_idx <= Len(releases)
  /\ CheckLoopBody("album", releases[r_idx].title, releases[r_idx].discogs_id)
  /\ UNCHANGED <<fun_vars, rec, disk_vars, analysis, tool, dry_run, releases, migrators,
                 mappings, error_log, calls>>

\* Lines 252-272: the summary prints percentages of the totals, so an empty database ends
\* the run with ZeroDivisionError.
CheckerSummary ==
  /\ tool = "checker" /\ pc = "releases" /\ r_idx > Len(releases)
  /\ pc' = IF Len(artists) = 0 \/ Len(releases) = 0 THEN "crashed" ELSE "done"
  /\ UNCHANGED <<fun_vars, rec, disk_vars, checkers, analysis, tool, dry_run, releases, a_idx,
                 r_idx, migrators, mappings, error_log, last, calls>>

(***************************************************************************)
(* main() of artist_folder_reconciler.py.                                  *)
(***************************************************************************)
\* ArtistFolderReconciler.__init__, lines 33-41, without its check of public_path.
ReconcilerInit_NoCheck ==
  /\ tool = "reconciler" /\ pc = "start"
  /\ pc' = "analysis"
  /\ UNCHANGED <<fun_vars, rec, disk_vars, checkers, analysis, tool, dry_run, releases, a_idx,
                 r_idx, migrators, mappings, error_log, last, calls>>

\* ArtistFolderReconciler.__init__, lines 33-41: when public_path does not exist, the error
\* is logged and sys.exit(1) ends the run (SystemExit passes the "except Exception" of
\* main).
ReconcilerInit ==
  /\ tool = "reconciler" /\ pc = "start"
  /\ IF base_exists.artist
     THEN pc' = "analysis" /\ error_log' = error_log
     ELSE pc' = "aborted" /\ error_log' = Append(error_log, <<"error", "artist">>)
  /\ UNCHANGED <<fun_vars, rec, disk_vars, checkers, analysis, tool, dry_run, releases, a_idx,
                 r_idx, migrators, mappings, last, calls>>

\* get_database_artists, lines 114-131, from the i-th name on: the artists by name, each
\* with its slug and one of the orders of its alternative slugs.
RECURSIVE DatabaseArtistsFrom(_, _)
DatabaseArtistsFrom(rows, i) ==
  IF i > Len(rows) THEN {<<>>}
  ELSE {<<[id |-> rows[i].id, name |-> rows[i].name, slug |-> Slugs[rows[i].name],
           alternative_slugs |-> alts]>> \o rest :
          alts \in AlternativeSlugs[rows[i].name], rest \in DatabaseArtistsFrom(rows, i + 1)}

\* ORDER BY name: the rows by name; rows of the same name come in an order SQL leaves open.
OrderedByName(table) ==
  {rows \in Orders(table) :
     \A i, j \in 1..Len(rows) : i < j => ~NameLess(rows[j].name, rows[i].name)}

\* get_database_artists, lines 114-131, on the artists table.
get_database_artists ==
  UNION {DatabaseArtistsFrom(rows, 1) : rows \in OrderedByName(rec.table)}

\* reconciler.analyze_coverage() and the report of main(), lines 308-320 and 372-374.  The
\* order of every list(set(...)) is that of the process and is kept for a later call of
\* get_database_artists (rec.db_artists).  An exception
\* (the division by zero of an empty database) is caught and logged by main(), which
\* exits with status 1.
ReconcilerAnalyze ==
  /\ tool = "reconciler" /\ pc = "analysis"
  /\ \E db_artists \in get_database_artists :
       LET public_folders == get_public_artist_folders(base_exists.artist, folders.artist)
           r == analyze_coverage(db_artists, public_folders)
       IN  /\ rec' = [rec EXCEPT !.db_artists = db_artists]
           /\ IF r.raised
              THEN /\ pc' = "failed"
                   /\ error_log' = Append(error_log, <<"error", "analysis">>)
                   /\ analysis' = analysis
              ELSE /\ pc' = "done"
                   /\ error_log' = error_log
                   /\ analysis' = r
  /\ UNCHANGED <<fun_vars, disk_vars, checkers, tool, dry_run, releases, a_idx, r_idx,
                 migrators, mappings, last, calls>>


Next ==
  \/ MigratorStart
  \/ ArtistStep
  \/ ArtistsDone
  \/ ReleaseStep
  \/ ReleasesDone
  \/ Regenerate
  \/ Crash
  \/ Rerun
  \/ CheckerStart
  \/ CheckArtistStep
  \/ CheckArtistsDone
  \/ CheckReleaseStep
  \/ CheckerSummary
  \/ ReconcilerInit
  \/ ReconcilerAnalyze

Spec == Init /\ [][Next]_vars

(***************************************************************************)
(* main() of artist_folder_reconciler.py with --find-matches and           *)
(* --threshold.                                                            *)
(***************************************************************************)
InitRec ==
  /\ FunIdle
  /\ tool = "reconciler" /\ pc = "start" /\ dry_run = FALSE
  /\ releases = <<>>
  /\ \E exists \in BOOLEAN :
       /\ base_exists = [artist |-> exists, album |-> TRUE]
       /\ folders \in {[artist |-> fs, album |-> {}] :
                         fs \in {s \in SUBSET RecFolders :
                                   Cardinality(s) <= MaxRecFolders /\ (~exists => s = {})}}
  /\ nested = [b \in Bases |-> {}]
  /\ a_idx = 1 /\ r_idx = 1
  /\ migrators = [b \in Bases |-> NewMigrator]
  /\ mappings = [b \in Bases |-> <<>>]
  /\ error_log = <<>>
  /\ last = NoCall
  /\ calls = 0
  /\ checkers = [b \in Bases |-> NewChecker]
  /\ analysis = None
  /\ \E table \in RecTables, find_matches \in BOOLEAN, threshold \in Thresholds :
       rec = [RecOff EXCEPT !.table = table, !.find_matches = find_matches,
                            !.threshold = threshold]

\* find_potential_matches, lines 148-173: the artists and folders are read, the exact
\* matches are found and the orphaned folders are left for the similarity loop, which
\* takes them in the order of the set.
FindExactMatches ==
  /\ tool = "reconciler" /\ pc = "done" /\ rec.find_matches
  /\ LET public_folders == get_public_artist_folders(base_exists.artist, folders.artist)
         exact == ExactMatches(rec.db_artists, public_folders)
     IN  \E todo \in Orders(exact.orphaned_folders) :
           rec' = [rec EXCEPT !.exact = exact, !.todo = todo]
  /\ pc' = "matching"
  /\ UNCHANGED <<fun_vars, disk_vars, checkers, analysis, tool, dry_run, releases, a_idx,
                 r_idx, migrators, mappings, error_log, last, calls>>

\* One pass of the loop of lines 175-197: the scores of one orphaned folder against every
\* unmatched artist; the folder becomes a key when it has a match.
ScoreFolder ==
  /\ tool = "reconciler" /\ pc = "matching" /\ rec.todo # <<>>
  /\ LET folder == Head(rec.todo)
         sorted_matches == SortedMatches(folder, rec.exact.unmatched_artists, rec.threshold)
     IN  rec' = [rec EXCEPT
                   !.todo = Tail(@),
                   !.scores_taken = @ + ScoresFor(rec.exact.unmatched_artists, 1),
                   !.potential_matches =
                      IF sorted_matches # <<>>
                      THEN Append(@, [folder |-> folder, matches |-> sorted_matches])
                      ELSE @]
  /\ UNCHANGED <<fun_vars, disk_vars, checkers, analysis, tool, pc, dry_run, releases, a_idx,
                 r_idx, migrators, mappings, error_log, last, calls>>

\* Lines 199 and 349-354: the candidates are returned and printed.
MatchesReturned ==
  /\ tool = "reconciler" /\ pc = "matching" /\ rec.todo = <<>>
  /\ pc' = "reported"
  /\ UNCHANGED <<fun_vars, rec, disk_vars, checkers, analysis, tool, dry_run, releases, a_idx,
                 r_idx, migrators, mappings, error_log, last, calls>>

NextRec ==
  \/ ReconcilerInit
  \/ ReconcilerAnalyze
  \/ FindExactMatches
  \/ ScoreFolder
  \/ MatchesReturned

SpecRec == InitRec /\ [][NextRec]_vars

(***************************************************************************)
(* Claims.                                                                 *)
(***************************************************************************)
\* C1: migrate_folder never performs a move whose target name exists under base_path at
\* that moment, whatever the folders on disk and whatever (old_name, new_name).  A move of
\* a folder onto its own name leaves the disk as it is and is not held against the claim.
C1_NoMoveOntoExistingTarget ==
  ~(last.op = "migrate" /\ last.moved /\ last.target_existed /\ last.old # last.new)

\* C2: analyze_folder answers by the first rule that applies, in dry-run and in real
\* mode alike: equal names are "correct" (even with no such folder on disk); else an
\* absent current_name is "missing"; else an existing expected_name is "conflict"; else
\* "needs_migration".
C2_AnalyzeRuleOrder ==
  last.op = "analyze" =>
    LET on_disk(n) == n \in folders.artist
    IN  /\ last.old = last.new => last.status = "correct"
        /\ last.old # last.new /\ ~on_disk(last.old) => last.status = "missing"
        /\ last.old # last.new /\ on_disk(last.old) /\ on_disk(last.new)
             => last.status = "conflict"
        /\ last.old # last.new /\ on_disk(last.old) /\ ~on_disk(last.new)
             => last.status = "needs_migration"

\* C2 witness: in dry-run mode, a call whose current folder and target both exist.
C2_Witness ==
  /\ dry_run /\ last.op = "analyze" /\ last.status = "conflict"
  /\ last.old \in folders.artist /\ last.new \in folders.artist

\* C3: in dry-run mode every call of migrate_folder returns True and changes neither the
\* folders on disk nor migrations_completed.
C3_DryRunMigrateIsNoOp ==
  [][(dry_run /\ calls' = calls + 1 /\ last'.op = "migrate") =>
       /\ last'.ret = TRUE
       /\ folders' = folders /\ nested' = nested /\ base_exists' = base_exists
       /\ migrators'.artist.migrations_completed = migrators.artist.migrations_completed]_vars

\* C3 witness: a dry-run call whose old_name does not exist and whose new_name does.
C3_Witness ==
  /\ dry_run /\ last.op = "migrate" /\ last.ret
  /\ last.old \notin folders.artist /\ last.new \in folders.artist

\* C4: in dry-run mode no step of a run of the migration tool changes the directories on
\* disk, so the disk at the end of the run is the disk at its start.
C4_DryRunLeavesDiskAlone ==
  [][(tool = "migrator" /\ dry_run) => UNCHANGED disk_vars]_vars

\* C5: when a rename fails with an I/O error, migrate_folder returns False, the pair is not
\* appended to migrations_completed, no mapping is recorded, and the loop goes on: a run
\* that reaches the summary has gone through every artist and every release.
C5_FailedRenameIsSkipped ==
  /\ [][(last'.error /\ (a_idx' = a_idx + 1 \/ r_idx' = r_idx + 1)) =>
          /\ last'.ret = FALSE
          /\ \A b \in Bases :
               migrators'[b].migrations_completed = migrators[b].migrations_completed
          /\ mappings' = mappings
          /\ last'.old \notin DOMAIN mappings'[last'.base]
          /\ folders' = folders
          /\ pc' = pc]_vars
  /\ []((tool = "migrator" /\ pc \in {"regenerate", "done"}) =>
          a_idx = Len(artists) + 1 /\ r_idx = Len(releases) + 1)

\* C5 witness: a run that ends after a failed rename was logged and a later entity's
\* folder was migrated.
C5_Witness ==
  /\ tool = "migrator" /\ pc = "done" /\ error_log # <<>>
  /\ last.op = "migrate" /\ last.moved

\* The base directories a tool expects: the reconciler reads the artist folders only.
ExpectedBases == IF tool = "reconciler" THEN {"artist"} ELSE Bases

C7_CorrectFolderStays ==
  [][/\ \A i \in 1..Len(artists) :
          ExpectedFolder(artists[i], None) \in folders.artist
            => ExpectedFolder(artists[i], None) \in folders'.artist
     /\ \A i \in 1..Len(releases) :
          ExpectedFolder(releases[i].title, releases[i].discogs_id) \in folders.album
            => ExpectedFolder(releases[i].title, releases[i].discogs_id) \in folders'.album
    ]_vars

\* The characters of a slug.
SlugChars == AsciiLower \cup Digits \cup {"-"}

\* Characters of the generated inputs that leave no letter or digit behind.
Vanishing == {" ", "_", "-", "(", "en_dash"}

\* C8: sanitize_folder_name never returns the empty string; an input of which the
\* pipeline keeps no character gives "unknown".
C8_NeverEmpty ==
  san_pc = "done" =>
    /\ san_out # <<>>
    /\ (\A i \in 1..Len(san_in) : san_in[i] \in Vanishing) => san_out = Unknown

\* C8 witness: an input that passes the early checks and loses every character.
C8_Witness ==
  /\ san_pc = "done" /\ ~IsEmptyName(san_in)
  /\ \A i \in 1..Len(san_in) : san_in[i] \in Vanishing
  /\ san_out = Unknown

\* C9: every character of the result of sanitize_folder_name is in [a-z0-9-].
C9_OnlySlugChars ==
  san_pc = "done" => \A i \in 1..Len(san_out) : san_out[i] \in SlugChars

\* C10: the result of sanitize_folder_name neither starts nor ends with a dash and holds
\* no two dashes in a row.
C10_NoBoundaryOrDoubleDash ==
  san_pc = "done" =>
    /\ san_out # <<>> => san_out[1] # "-" /\ san_out[Len(san_out)] # "-"
    /\ ~Contains(san_out, <<"-", "-">>)

\* C10 witness: a dash-like symbol, a word symbol (which brings its own dash) and an
\* underscore around one word.
C10_Witness ==
  /\ san_pc = "done"
  /\ san_in = <<"en_dash", "vulgar_fraction_one_half", "_">>
  /\ san_out = <<"h", "a", "l", "f">>

\* C11: sanitize_folder_name is idempotent: sanitizing a result once more gives the same
\* result.
C11_Idempotent ==
  san_pc = "done" => sanitize_folder_name(san_out) = san_out

\* C11 witness: a name that the pipeline changes, and whose result it leaves alone.
C11_Witness ==
  /\ san_pc = "done"
  /\ san_in = <<"a", " ", "-", " ", "b">>
  /\ san_out = <<"a", "-", "b">>
  /\ sanitize_folder_name(san_out) = san_out

\* C12: for the empty string, a string of whitespace only and the six bracket pairs,
\* sanitize_folder_name returns "unknown" from the early checks, before the pipeline runs.
C12_EarlyUnknown ==
  (/\ san_pc = "done"
   /\ \/ san_in = <<>>
      \/ \A i \in 1..Len(san_in) : san_in[i] \in Whitespace
      \/ san_in \in {<<"(", ")">>, <<"(", " ", ")">>, <<"[", "]">>, <<"[", " ", "]">>,
                     <<"{", "}">>, <<"{", " ", "}">>})
    => san_out = Unknown /\ san_path = "early"

\* C12 witness: the pair of square brackets around a space has been answered early.
C12_Witness ==
  /\ san_pc = "done"
  /\ san_in = <<"[", " ", "]">>
  /\ san_out = Unknown
  /\ san_path = "early"

\* C17: the reconciler's slugify returns, for every name, the canonical slug that
\* sanitize_folder_name returns.
C17_SlugifyIsSanitize ==
  san_pc = "done" => slugify(san_in) = san_out

\* The rule of underscore resolution applied to every underscore of s on its own: the
\* underscore at position i is deleted when a letter stands on both sides and no letter
\* follows the right-hand one, and becomes a dash otherwise.
RECURSIVE PerUnderscoreFrom(_, _)
PerUnderscoreFrom(s, i) ==
  IF i > Len(s) THEN <<>>
  ELSE IF s[i] # "_" THEN <<s[i]>> \o PerUnderscoreFrom(s, i + 1)
  ELSE IF /\ i > 1 /\ s[i - 1] \in AsciiLower
          /\ i < Len(s) /\ s[i + 1] \in AsciiLower
          /\ (i + 2 <= Len(s) => s[i + 2] \notin AsciiLower)
       THEN PerUnderscoreFrom(s, i + 1)
       ELSE <<"-">> \o PerUnderscoreFrom(s, i + 1)

\* C20: in sanitize_folder_name every underscore directly between two letters, of which
\* the right-hand one is followed by no letter, is deleted, and every other underscore
\* becomes a dash; this holds for each underscore of the input, consecutive ones included.
\* "G_d's Puzzle" gives "gds-puzzle" and "The_Puzzle" gives "the-puzzle".
C20_EveryUnderscoreResolved ==
  san_pc = "done" =>
    /\ (san_in # <<>> /\ \A i \in 1..Len(san_in) : san_in[i] \in AsciiLower \cup AsciiUpper \cup {"_"})
         => san_out = FinalFallback(StripDashes(CollapseDashes(PerUnderscoreFrom(Lower(san_in), 1))))
    /\ san_in = <<"G", "_", "d", "'", "s", " ", "P", "u", "z", "z", "l", "e">>
         => san_out = <<"g", "d", "s", "-", "p", "u", "z", "z", "l", "e">>
    /\ san_in = <<"T", "h", "e", "_", "P", "u", "z", "z", "l", "e">>
         => san_out = <<"t", "h", "e", "-", "p", "u", "z", "z", "l", "e">>

\* C18: similarity_score gives the same value for both orders of its arguments, the value
\* lies in [0, 1], it is 1.0 exactly when the lowered strings are equal, and it is twice
\* the matched size over the sum of the two lengths.
C18_SimilarityContract ==
  sim.pc = "done" =>
    /\ ScoreEq(sim.ab, sim.ba)
    /\ ScoreGeq(sim.ab, [num |-> 0, den |-> 1]) /\ ScoreGeq([num |-> 1, den |-> 1], sim.ab)
    /\ ScoreEq(sim.ab, [num |-> 1, den |-> 1]) <=> Lower(sim.a) = Lower(sim.b)
    /\ Len(sim.a) + Len(sim.b) > 0 =>
         /\ sim.ab.den = Len(sim.a) + Len(sim.b)
         /\ sim.ab.num % 2 = 0 /\ sim.ab.num \div 2 <= Len(sim.a) /\ sim.ab.num \div 2 <= Len(sim.b)

\* C19: the expected folder name of a release is sanitize_folder_name(title), a dash and
\* the identifier as it is, the same in the checker and in the migrator; two releases
\* whose identifiers differ and hold no dash never have the same expected folder name.
C19_ExpectedReleaseNames ==
  naming.pc = "done" =>
    /\ \A k \in 1..Len(naming.rels) :
         /\ naming.migrator[k] = naming.checker[k]
         /\ naming.migrator[k] =
              sanitize_folder_name(naming.rels[k].title) \o <<"-">> \o naming.rels[k].discogs_id
    /\ \A k, l \in 1..Len(naming.rels) :
         (/\ naming.rels[k].discogs_id # naming.rels[l].discogs_id
          /\ ~Contains(naming.rels[k].discogs_id, <<"-">>)
          /\ ~Contains(naming.rels[l].discogs_id, <<"-">>))
           => /\ naming.migrator[k] # naming.migrator[l]
              /\ naming.checker[k] # naming.checker[l]

\* C19 witness: two releases whose titles both sanitize to "unknown" have got different
\* names from both tools.
C19_Witness ==
  /\ naming.pc = "done"
  /\ naming.rels = <<[title |-> <<"(", " ", ")">>, discogs_id |-> <<"7">>],
                     [title |-> <<"-">>, discogs_id |-> <<"1", "7">>]>>
  /\ naming.checker = <<<<"u", "n", "k", "n", "o", "w", "n", "-", "7">>,
                        <<"u", "n", "k", "n", "o", "w", "n", "-", "1", "7">>>>
  /\ naming.migrator = naming.checker

\* The folders the reconciler reads.
PublicFolders == get_public_artist_folders(base_exists.artist, folders.artist)

\* C13: analyze_coverage counts an artist as matched exactly when some slug of its
\* alternative slugs is a folder, and lists it as missing exactly when none is, in
\* whatever order alternative_slugify returned the slugs.
C13_MatchedIffSomeSlug ==
  (tool = "reconciler" /\ analysis # None) =>
    LET matched == {i \in 1..Len(rec.db_artists) :
                      Range(rec.db_artists[i].alternative_slugs) \cap PublicFolders # {}}
    IN  /\ \A i \in 1..Len(rec.db_artists) :
             (rec.db_artists[i] \in Range(analysis.missing_artists)) <=> i \notin matched
        /\ analysis.total_matches = Cardinality(matched)

\* The folders that are a slug of no artist of the database.
NoSlugFolders ==
  {f \in PublicFolders :
     \A i \in 1..Len(rec.db_artists) : f \notin Range(rec.db_artists[i].alternative_slugs)}

\* C14: the folders reported as orphaned, by analyze_coverage and by
\* find_potential_matches, are exactly the folders that equal no slug of any artist, also
\* when two slugs of one artist are both folders.
C14_OrphanedIffNoSlug ==
  /\ (tool = "reconciler" /\ analysis # None) => analysis.orphaned_folders = NoSlugFolders
  /\ (tool = "reconciler" /\ rec.exact # None) => rec.exact.orphaned_folders = NoSlugFolders

\* The artists of which some slug is a folder.
ExactlyMatched ==
  {rec.db_artists[i] :
     i \in {k \in 1..Len(rec.db_artists) :
              Range(rec.db_artists[k].alternative_slugs) \cap PublicFolders # {}}}

\* C15: in find_potential_matches an artist with a slug that is a folder is a candidate of
\* no folder, a folder consumed by an exact match is no key of the candidates, and the
\* matched artists and consumed folders are complete, and stay as they are, from the
\* first similarity score on.
C15_ExactBeforeFuzzy ==
  /\ [](tool = "reconciler" =>
          \A k \in 1..Len(rec.potential_matches) :
            /\ rec.potential_matches[k].folder \notin rec.exact.matched_folders
            /\ \A l \in 1..Len(rec.potential_matches[k].matches) :
                 \A a \in ExactlyMatched : rec.potential_matches[k].matches[l].name # a.name)
  /\ [][rec'.scores_taken > rec.scores_taken =>
          /\ rec.exact # None /\ rec'.exact = rec.exact
          /\ rec.exact.matched_artists = {a.id : a \in ExactlyMatched}
          /\ \A i \in 1..Len(rec.db_artists) :
               rec.db_artists[i] \in ExactlyMatched
                 => rec.exact.matched_folders \cap Range(rec.db_artists[i].alternative_slugs) # {}
          /\ rec.exact.matched_folders \subseteq PublicFolders
          /\ \A f \in rec.exact.matched_folders :
               \E i \in 1..Len(rec.db_artists) : f \in Range(rec.db_artists[i].alternative_slugs)
       ]_vars

\* C15 witness: "whom" is the folder of Whom, and the orphaned folder "whoa", which
\* resembles Whom enough for the threshold, has got The Who as its only candidate.
C15_Witness ==
  /\ tool = "reconciler" /\ pc = "reported"
  /\ rec.threshold = [num |-> 1, den |-> 2]
  /\ rec.table = {[id |-> 1, name |-> TheWho], [id |-> 3, name |-> Whom]}
  /\ rec.exact.matched_artists = {3}
  /\ ScoreGeq(similarity_score(<<"w", "h", "o", "a">>, Whom), rec.threshold)
  /\ Len(rec.potential_matches) = 1
  /\ rec.potential_matches[1].folder = <<"w", "h", "o", "a">>
  /\ Len(rec.potential_matches[1].matches) = 1
  /\ rec.potential_matches[1].matches[1].name = TheWho
  /\ rec.scores_taken > 0

\* The candidates returned for a folder: none when the folder is no key.
CandidatesOf(folder) ==
  UNION {Range(rec.potential_matches[k].matches) :
           k \in {l \in 1..Len(rec.potential_matches) : rec.potential_matches[l].folder = folder}}

\* C16: every candidate returned by find_potential_matches has a score of at least the
\* threshold, and for the same artists and folders the candidates of every folder at a
\* higher threshold are among those returned.
C16_ThresholdMonotone ==
  (tool = "reconciler" /\ pc = "reported") =>
    /\ \A f \in PublicFolders : \A m \in CandidatesOf(f) : ScoreGeq(m.score, rec.threshold)
    /\ \A t2 \in Thresholds :
         ScoreGeq(t2, rec.threshold) =>
           \A f \in rec.exact.orphaned_folders :
             Range(SortedMatches(f, rec.exact.unmatched_artists, t2)) \subseteq CandidatesOf(f)

\* C16 witness: at the threshold 0.5 the folder "whoa" has Whom as a candidate with 0.75,
\* which the threshold 0.8 does not admit.
C16_Witness ==
  /\ tool = "reconciler" /\ pc = "reported"
  /\ rec.threshold = [num |-> 1, den |-> 2]
  /\ CandidatesOf(<<"w", "h", "o", "a">>) = {[name |-> Whom, score |-> [num |-> 6, den |-> 8]]}
  /\ SortedMatches(<<"w", "h", "o", "a">>, rec.exact.unmatched_artists, [num |-> 4, den |-> 5]) = <<>>

\* The symbols that stand for a word, with the word, and the superscript digits, with the
\* digit.
WordSymbols ==
  "vulgar_fraction_one_half" :> <<"h", "a", "l", "f">> @@
  "vulgar_fraction_one_third" :> <<"t", "h", "i", "r", "d">> @@
  "vulgar_fraction_one_quarter" :> <<"q", "u", "a", "r", "t", "e", "r">> @@
  "vulgar_fraction_three_quarters" :>
    <<"t", "h", "r", "e", "e", "-", "q", "u", "a", "r", "t", "e", "r", "s">> @@
  "vulgar_fraction_one_eighth" :> <<"e", "i", "g", "h", "t", "h">> @@
  "vulgar_fraction_three_eighths" :>
    <<"t", "h", "r", "e", "e", "-", "e", "i", "g", "h", "t", "h", "s">> @@
  "vulgar_fraction_five_eighths" :>
    <<"f", "i", "v", "e", "-", "e", "i", "g", "h", "t", "h", "s">> @@
  "vulgar_fraction_seven_eighths" :>
    <<"s", "e", "v", "e", "n", "-", "e", "i", "g", "h", "t", "h", "s">>

SuperscriptDigits ==
  "superscript_one" :> "1" @@ "superscript_two" :> "2" @@ "superscript_three" :> "3"

\* A word symbol becomes a dash and its word, a superscript its digit, anything else stays.
RECURSIVE TransliteratedFrom(_, _)
TransliteratedFrom(s, i) ==
  IF i > Len(s) THEN <<>>
  ELSE (IF s[i] \in DOMAIN WordSymbols THEN <<"-">> \o WordSymbols[s[i]]
        ELSE IF s[i] \in DOMAIN SuperscriptDigits THEN <<SuperscriptDigits[s[i]]>>
        ELSE <<s[i]>>)
       \o TransliteratedFrom(s, i + 1)

QualifyingScores(folder, artist) ==
  {s \in {similarity_score(folder, artist.name)}
           \cup {similarity_score(folder, slug) : slug \in Range(artist.alternative_slugs)} :
     ScoreGeq(s, rec.threshold)}

\* C22: in the result of find_potential_matches the candidate list of a folder holds one
\* entry for every unmatched artist that has a score reaching the threshold, artists of
\* different ids each their own, and no other entry; the score of the entry is the
\* greatest of the artist's scores.
C22_OneEntryPerEntity ==
  (tool = "reconciler" /\ pc = "reported") =>
    \A f \in rec.exact.orphaned_folders :
      LET unmatched == rec.exact.unmatched_artists
          qualifying == {i \in 1..Len(unmatched) : QualifyingScores(f, unmatched[i]) # {}}
          entries == {k \in 1..Len(rec.potential_matches) : rec.potential_matches[k].folder = f}
      IN  /\ Cardinality(entries) <= 1
          /\ qualifying # {} <=> entries # {}
          /\ \A k \in entries :
               LET matches == rec.potential_matches[k].matches
               IN  /\ Len(matches) = Cardinality(qualifying)
                   /\ \A i \in qualifying :
                        \E l \in 1..Len(matches) :
                          /\ matches[l].name = unmatched[i].name
                          /\ matches[l].score \in QualifyingScores(f, unmatched[i])
                          /\ \A s \in QualifyingScores(f, unmatched[i]) :
                               ScoreGeq(matches[l].score, s)

\* The place among the unmatched artists of the first one of the given name that has a
\* score of the folder reaching the threshold.
FirstSeen(folder, name) ==
  LET unmatched == rec.exact.unmatched_artists
      seen == {i \in 1..Len(unmatched) :
                 unmatched[i].name = name /\ QualifyingScores(folder, unmatched[i]) # {}}
  IN  IF seen = {} THEN 0 ELSE CHOOSE i \in seen : \A j \in seen : i <= j

\* C23: every candidate list returned by find_potential_matches is in the order of
\* non-increasing score, and candidates of equal score are in the order in which their
\* artists were first seen among the unmatched artists.
C23_SortedByScore ==
  \A k \in 1..Len(rec.potential_matches) :
    LET folder == rec.potential_matches[k].folder
        matches == rec.potential_matches[k].matches
    IN  \A l, m \in 1..Len(matches) :
          l < m =>
            /\ ScoreGeq(matches[l].score, matches[m].score)
            /\ ScoreEq(matches[l].score, matches[m].score)
                 => FirstSeen(folder, matches[l].name) < FirstSeen(folder, matches[m].name)

\* The folder 'whoa' is as near to The Who as to Who; both are candidates, The Who first.
C23_Witness ==
  /\ tool = "reconciler" /\ pc = "reported"
  /\ \E k \in 1..Len(rec.potential_matches) :
       /\ rec.potential_matches[k].folder = <<"w", "h", "o", "a">>
       /\ Len(rec.potential_matches[k].matches) >= 2
       /\ rec.potential_matches[k].matches[1].name = TheWho
       /\ rec.potential_matches[k].matches[2].name = Who
       /\ ScoreEq(rec.potential_matches[k].matches[1].score,
                  rec.potential_matches[k].matches[2].score)

\* C24: analyze_coverage counts every artist of the database once, as an exact match, as
\* an alternative match or as missing: the three counts add up to total_db_artists, no
\* artist is listed as missing twice, total_matches is at most total_db_artists, and
\* coverage_percentage is total_matches / total_db_artists * 100, between 0 and 100.
C24_CoveragePartition ==
  (tool = "reconciler" /\ analysis # None) =>
    /\ analysis.total_db_artists = Len(rec.db_artists)
    /\ analysis.total_db_artists = Cardinality(rec.table)
    /\ analysis.total_db_artists > 0
    /\ analysis.exact_matches + analysis.alternative_matches + Len(analysis.missing_artists)
         = analysis.total_db_artists
    /\ \A i, j \in 1..Len(analysis.missing_artists) :
         analysis.missing_artists[i].id = analysis.missing_artists[j].id => i = j
    /\ \A i \in 1..Len(analysis.missing_artists) :
         \E k \in 1..Len(rec.db_artists) : rec.db_artists[k] = analysis.missing_artists[i]
    /\ analysis.total_matches = analysis.exact_matches + analysis.alternative_matches
    /\ analysis.total_matches <= analysis.total_db_artists
    /\ analysis.coverage_percentage.numerator = analysis.total_matches * 100
    /\ analysis.coverage_percentage.denominator = analysis.total_db_artists
    /\ 0 <= analysis.coverage_percentage.numerator
    /\ analysis.coverage_percentage.numerator <= 100 * analysis.coverage_percentage.denominator

\* Of three artists one is an exact match, one an alternative match and one is missing.
C24_Witness ==
  /\ tool = "reconciler" /\ analysis # None
  /\ analysis.total_db_artists = 3
  /\ analysis.exact_matches = 1
  /\ analysis.alternative_matches = 1
  /\ Len(analysis.missing_artists) = 1
  /\ analysis.coverage_percentage = [numerator |-> 200, denominator |-> 3]

\* The expected folders, under the base directory b, of the entities of the database
\* other than the one of the given name and id.
ExpectedOfOthers(b, name, discogs_id) ==
  IF b = "artist"
  THEN {ExpectedFolder(artists[i], None) : i \in {k \in 1..Len(artists) : artists[k] # name}}
  ELSE {ExpectedFolder(releases[i].title, releases[i].discogs_id) :
          i \in {k \in 1..Len(releases) :
                   <<releases[k].title, releases[k].discogs_id>> # <<name, discogs_id>>}}

\* C25: no step of the migration loops renames, on behalf of one entity, a folder that is
\* the expected folder of another entity of the database; in particular not a folder that
\* find_existing_folder returned through its partial match of the name.
C25_NoRenameOfAnothersFolder ==
  [][(/\ tool = "migrator"
      /\ a_idx' = a_idx + 1 \/ r_idx' = r_idx + 1
      /\ last'.op = "migrate" /\ last'.moved)
       => last'.old \notin ExpectedOfOthers(last'.base, last'.name,
                                            IF last'.base = "artist" THEN None
                                            ELSE releases[r_idx].discogs_id)]_vars

\* C26: a dry run and a real run of a migration loop that start from the same folders and
\* the same entities, with no rename refused and no answer of find_existing_folder left
\* to the order of the directory, end with the same migrations_needed and the same
\* conflicts.
C26_PreviewMatchesRealRun ==
  (preview.pc = "summary" /\ ~preview.ambiguous) =>
    /\ preview.dry.migrator.migrations_needed = preview.real.migrator.migrations_needed
    /\ preview.dry.migrator.conflicts = preview.real.migrator.conflicts

\* s is t with some of its elements left out.
RECURSIVE IsSubsequence(_, _)
IsSubsequence(s, t) ==
  IF s = <<>> THEN TRUE
  ELSE IF t = <<>> THEN FALSE
  ELSE IF Head(s) = Head(t) THEN IsSubsequence(Tail(s), Tail(t))
  ELSE IsSubsequence(s, Tail(t))

\* C27: at every point of a run of the migration tool migrations_completed is a
\* subsequence of migrations_needed, in dry-run mode migrations_completed is empty, and
\* no step adds a pair to migrations_needed and to conflicts.
C27_CompletedWithinNeeded ==
  /\ [](tool = "migrator" =>
          \A b \in Bases :
            /\ IsSubsequence(migrators[b].migrations_completed, migrators[b].migrations_needed)
            /\ dry_run => migrators[b].migrations_completed = <<>>)
  /\ [][tool = "migrator" =>
          \A b \in Bases :
            ~(/\ migrators'[b].migrations_needed # migrators[b].migrations_needed
              /\ migrators'[b].conflicts # migrators[b].conflicts
              /\ migrators'[b].conflicts # <<>>)]_vars

\* A real run in which the first of two renames was refused and the second went through.
C27_Witness ==
  /\ tool = "migrator" /\ ~dry_run
  /\ Len(migrators.artist.migrations_needed) = 2
  /\ migrators.artist.migrations_completed = <<migrators.artist.migrations_needed[2]>>
  /\ migrators.artist.migrations_needed[1] # migrators.artist.migrations_needed[2]

\* The name a folder has after the renames of the list, in order.
RECURSIVE NameAfter(_, _)
NameAfter(folder, renames) ==
  IF renames = <<>> THEN folder
  ELSE NameAfter(IF Head(renames)[1] = folder THEN Head(renames)[2] ELSE folder, Tail(renames))

\* C28: a migration loop only renames folders: at every point of a real run the base
\* directory holds as many folders as before the loop, every folder that was there before
\* is there under the name the completed renames gave it, no folder lies inside another,
\* and no two completed renames have the same target.
C28_LoopsOnlyRename ==
  preview.pc # "idle" =>
    LET completed == preview.real.migrator.migrations_completed
    IN  /\ Cardinality(preview.real.folders) = Cardinality(preview.before)
        /\ preview.real.folders = {NameAfter(f, completed) : f \in preview.before}
        /\ preview.real.nested = {}
        /\ \A i, j \in 1..Len(completed) : completed[i][2] = completed[j][2] => i = j

\* The four result lists of a SanitizationChecker, and the number of results in them.
CheckerLists == {"missing_folders", "already_correct", "conflicts", "changes_needed"}

Classified(checker) ==
  Len(checker.missing_folders) + Len(checker.already_correct) + Len(checker.conflicts)
    + Len(checker.changes_needed)

\* The checker stands before a call of check_entity for an entity of the base directory b.
BeforeCheck(b) ==
  /\ tool = "checker"
  /\ IF b = "artist" THEN pc = "artists" /\ a_idx <= Len(artists)
     ELSE pc = "releases" /\ r_idx <= Len(releases)

\* C29: every call of check_entity returns one of the four statuses, never 'unknown', and
\* appends its result to exactly one of the four lists, so that the lengths of the lists
\* add up to the number of calls made.
C29_OneListPerCall ==
  /\ [][\A b \in Bases :
          BeforeCheck(b) =>
            /\ pc' # "crashed"
            /\ last'.status \in {"missing", "correct", "conflict", "needs_change"}
            /\ \E list \in CheckerLists :
                 /\ Len(checkers'[b][list]) = Len(checkers[b][list]) + 1
                 /\ checkers'[b][list][Len(checkers'[b][list])].status = last'.status
                 /\ \A other \in CheckerLists \ {list} : checkers'[b][other] = checkers[b][other]]_vars
  /\ [](tool = "checker" /\ pc \in {"artists", "releases", "done"} =>
          /\ Classified(checkers.artist) = a_idx - 1
          /\ Classified(checkers.album) = r_idx - 1)

\* C30: on the same database and folders analyze_coverage and find_potential_matches
\* agree: the artists reported as missing are the unmatched artists for which candidates
\* are sought, and the orphaned folders of the one are the orphaned folders of the other.
C30_PassesAgree ==
  (tool = "reconciler" /\ analysis # None /\ rec.exact # None) =>
    /\ {analysis.missing_artists[i].id : i \in 1..Len(analysis.missing_artists)}
         = {rec.exact.unmatched_artists[i].id : i \in 1..Len(rec.exact.unmatched_artists)}
    /\ analysis.orphaned_folders = rec.exact.orphaned_folders
=============================================================================
